---------------------------- MODULE Spec2Model ----------------------------
(***************************************************************************)
(* Model of the remediation-reasoning engine of pierce-m365-mcp            *)
(* (src/src/python/internal_reasoning_engine.py).                          *)
(*                                                                         *)
(* Python values are tagged records [t |-> type name, v |-> payload]:      *)
(* a str is a sequence of one-character strings, a list a sequence of      *)
(* values, a dict an insertion-ordered sequence of <<key, value>> pairs    *)
(* whose keys are strs (character sequences).                              *)
(***************************************************************************)
EXTENDS Integers, Sequences, FiniteSets, TLC

(***************************************************************************)
(* Text: Python str operations on character sequences.                     *)
(***************************************************************************)
UpperAlpha ==
    <<"A", "B", "C", "D", "E", "F", "G", "H", "I", "J", "K", "L", "M",
      "N", "O", "P", "Q", "R", "S", "T", "U", "V", "W", "X", "Y", "Z">>

LowerAlpha ==
    <<"a", "b", "c", "d", "e", "f", "g", "h", "i", "j", "k", "l", "m",
      "n", "o", "p", "q", "r", "s", "t", "u", "v", "w", "x", "y", "z">>

Digits ==
    <<"0", "1", "2", "3", "4", "5", "6", "7", "8", "9">>

Range(s) == {s[i] : i \in 1..Len(s)}

IndexOf(s, x) == CHOOSE i \in 1..Len(s) : s[i] = x /\ \A j \in 1..(i - 1) : s[j] # x

\* str.lower() on one character and on a str
LowerChar(c) == IF c \in Range(UpperAlpha) THEN LowerAlpha[IndexOf(UpperAlpha, c)] ELSE c

Lower(s) == [i \in 1..Len(s) |-> LowerChar(s[i])]

\* the Python test `sub in s` on strs
Contains(sub, s) ==
    \E i \in 0..(Len(s) - Len(sub)) : SubSeq(s, i + 1, i + Len(sub)) = sub

RECURSIVE Concat(_)
\* "".join(parts)
Concat(parts) == IF parts = <<>> THEN <<>> ELSE Head(parts) \o Concat(Tail(parts))

RECURSIVE Join(_, _)
\* sep.join(parts)
Join(sep, parts) ==
    IF parts = <<>> THEN <<>>
    ELSE IF Len(parts) = 1 THEN parts[1]
    ELSE parts[1] \o sep \o Join(sep, Tail(parts))

RECURSIVE IntToText(_)
\* str(n) for an int
IntToText(n) ==
    IF n < 0 THEN <<"-">> \o IntToText(0 - n)
    ELSE IF n < 10 THEN <<Digits[n + 1]>>
    ELSE IntToText(n \div 10) \o <<Digits[(n % 10) + 1]>>

(***************************************************************************)
(* String literals of the source.                                          *)
(***************************************************************************)
K_Type ==
    <<"T", "y", "p", "e">>
K_Error ==
    <<"E", "r", "r", "o", "r">>
K_ValidationResult ==
    <<"V", "a", "l", "i", "d", "a", "t", "i", "o", "n", "R", "e", "s", "u", "l", "t">>
K_Errors ==
    <<"E", "r", "r", "o", "r", "s">>
K_Warnings ==
    <<"W", "a", "r", "n", "i", "n", "g", "s">>
K_Metrics ==
    <<"M", "e", "t", "r", "i", "c", "s">>
K_Stage ==
    <<"S", "t", "a", "g", "e">>
K_LowerBound ==
    <<"L", "o", "w", "e", "r", "B", "o", "u", "n", "d">>
K_KnownUsers ==
    <<"K", "n", "o", "w", "n", "U", "s", "e", "r", "s">>
K_KnownMailboxes ==
    <<"K", "n", "o", "w", "n", "M", "a", "i", "l", "b", "o", "x", "e", "s">>
K_Corrections ==
    <<"C", "o", "r", "r", "e", "c", "t", "i", "o", "n", "s">>
K_environment ==
    <<"e", "n", "v", "i", "r", "o", "n", "m", "e", "n", "t">>
K_cwd ==
    <<"c", "w", "d">>
K_user ==
    <<"u", "s", "e", "r">>
K_hostname ==
    <<"h", "o", "s", "t", "n", "a", "m", "e">>
T_ValidationFailure ==
    <<"V", "a", "l", "i", "d", "a", "t", "i", "o", "n", "F", "a", "i", "l", "u", "r", "e">>
T_ToolError ==
    <<"T", "o", "o", "l", "E", "r", "r", "o", "r">>
T_LowConfidence ==
    <<"L", "o", "w", "C", "o", "n", "f", "i", "d", "e", "n", "c", "e">>
S_timeout ==
    <<"t", "i", "m", "e", "o", "u", "t">>
S_network ==
    <<"n", "e", "t", "w", "o", "r", "k">>
S_permission ==
    <<"p", "e", "r", "m", "i", "s", "s", "i", "o", "n">>
S_rate ==
    <<"r", "a", "t", "e">>
S_limit ==
    <<"l", "i", "m", "i", "t">>
S_user ==
    <<"u", "s", "e", "r">>
S_mailbox ==
    <<"m", "a", "i", "l", "b", "o", "x">>
S_None ==
    <<"N", "o", "n", "e">>
C_Timeout ==
    <<"T", "i", "m", "e", "o", "u", "t">>
C_NetworkError ==
    <<"N", "e", "t", "w", "o", "r", "k", "E", "r", "r", "o", "r">>
C_PermissionDenied ==
    <<"P", "e", "r", "m", "i", "s", "s", "i", "o", "n", "D", "e", "n", "i", "e", "d">>
C_RateLimit ==
    <<"R", "a", "t", "e", "L", "i", "m", "i", "t">>
M_issue_must_be_dict ==
    <<"i", "s", "s", "u", "e", " ", "m", "u", "s", "t", " ", "b", "e", " ", "a", " ", "d", "i", "c", "t", "i", "o", "n", "a", "r", "y">>
M_context_must_be_dict ==
    <<"c", "o", "n", "t", "e", "x", "t", " ", "m", "u", "s", "t", " ", "b", "e", " ", "a", " ", "d", "i", "c", "t", "i", "o", "n", "a", "r", "y">>
M_Unknown_issue_type ==
    <<"U", "n", "k", "n", "o", "w", "n", " ", "i", "s", "s", "u", "e", " ", "t", "y", "p", "e">>
M_Escalation_required ==
    <<"E", "s", "c", "a", "l", "a", "t", "i", "o", "n", " ", "r", "e", "q", "u", "i", "r", "e", "d", " ", "a", "f", "t", "e", "r", " ", "m", "a", "x", " ", "i", "t", "e", "r", "a", "t", "i", "o", "n", "s">>
M_Escalated_to_human_review ==
    <<"E", "s", "c", "a", "l", "a", "t", "e", "d", " ", "t", "o", " ", "h", "u", "m", "a", "n", " ", "r", "e", "v", "i", "e", "w">>
M_Escalation ==
    <<"E", "s", "c", "a", "l", "a", "t", "i", "o", "n">>
M_warnings_acknowledged ==
    <<"V", "a", "l", "i", "d", "a", "t", "i", "o", "n", " ", "w", "a", "r", "n", "i", "n", "g", "s", " ", "a", "c", "k", "n", "o", "w", "l", "e", "d", "g", "e", "d">>
M_corrections_applied ==
    <<"E", "n", "t", "i", "t", "y", " ", "c", "o", "r", "r", "e", "c", "t", "i", "o", "n", "s", " ", "a", "p", "p", "l", "i", "e", "d">>
M_Applied_corrections ==
    <<"A", "p", "p", "l", "i", "e", "d", " ", "c", "o", "r", "r", "e", "c", "t", "i", "o", "n", "s", ":", " ">>
M_unable ==
    <<"U", "n", "a", "b", "l", "e", " ", "t", "o", " ", "a", "u", "t", "o", "-", "r", "e", "s", "o", "l", "v", "e", " ", "v", "a", "l", "i", "d", "a", "t", "i", "o", "n", " ", "e", "r", "r", "o", "r", "s">>
M_Validation_errors ==
    <<"V", "a", "l", "i", "d", "a", "t", "i", "o", "n", " ", "e", "r", "r", "o", "r", "s", ":", " ">>
M_Tool_analyzed ==
    <<"T", "o", "o", "l", " ", "e", "x", "e", "c", "u", "t", "i", "o", "n", " ", "e", "r", "r", "o", "r", " ", "a", "n", "a", "l", "y", "z", "e", "d">>
M_Error_prefix ==
    <<"E", "r", "r", "o", "r", ":", " ">>
M_RootCause_prefix ==
    <<"R", "o", "o", "t", "C", "a", "u", "s", "e", ":", " ">>
M_Automatic ==
    <<"A", "u", "t", "o", "m", "a", "t", "i", "c", " ", "r", "e", "m", "e", "d", "i", "a", "t", "i", "o", "n", " ", "s", "u", "g", "g", "e", "s", "t", "e", "d">>
M_Low_confidence ==
    <<"L", "o", "w", " ", "c", "o", "n", "f", "i", "d", "e", "n", "c", "e", " ", "d", "e", "t", "e", "c", "t", "e", "d", " ", "a", "t", " ">>
M_LowerBound_prefix ==
    <<"L", "o", "w", "e", "r", "B", "o", "u", "n", "d", ":", " ">>
M_Reanalyzing ==
    <<"R", "e", "a", "n", "a", "l", "y", "z", "i", "n", "g", " ", "c", "o", "n", "t", "e", "x", "t", " ", "a", "n", "d", " ", "s", "u", "g", "g", "e", "s", "t", "i", "n", "g", " ", "i", "m", "p", "r", "o", "v", "e", "m", "e", "n", "t", "s">>
M_Retry ==
    <<"R", "e", "t", "r", "y", " ", "o", "p", "e", "r", "a", "t", "i", "o", "n", " ", "w", "i", "t", "h", " ", "b", "a", "c", "k", "o", "f", "f">>
M_Check_network ==
    <<"C", "h", "e", "c", "k", " ", "n", "e", "t", "w", "o", "r", "k", " ", "c", "o", "n", "n", "e", "c", "t", "i", "v", "i", "t", "y", " ", "a", "n", "d", " ", "r", "e", "t", "r", "y">>
M_Verify_permissions ==
    <<"V", "e", "r", "i", "f", "y", " ", "p", "e", "r", "m", "i", "s", "s", "i", "o", "n", "s", " ", "o", "r", " ", "e", "s", "c", "a", "l", "a", "t", "e">>
M_Wait ==
    <<"W", "a", "i", "t", " ", "b", "e", "f", "o", "r", "e", " ", "r", "e", "t", "r", "y", "i", "n", "g", " ", "t", "o", " ", "r", "e", "s", "p", "e", "c", "t", " ", "r", "a", "t", "e", " ", "l", "i", "m", "i", "t", "s">>
M_Escalate_operator ==
    <<"E", "s", "c", "a", "l", "a", "t", "e", " ", "t", "o", " ", "h", "u", "m", "a", "n", " ", "o", "p", "e", "r", "a", "t", "o", "r">>
M_no_attr_pre ==
    <<"'", " ", "o", "b", "j", "e", "c", "t", " ", "h", "a", "s", " ", "n", "o", " ", "a", "t", "t", "r", "i", "b", "u", "t", "e", " ", "'">>
M_unhashable ==
    <<"u", "n", "h", "a", "s", "h", "a", "b", "l", "e", " ", "t", "y", "p", "e", ":", " ", "'">>
M_not_iterable ==
    <<"'", " ", "o", "b", "j", "e", "c", "t", " ", "i", "s", " ", "n", "o", "t", " ", "i", "t", "e", "r", "a", "b", "l", "e">>

(***************************************************************************)
(* Python values.                                                          *)
(***************************************************************************)
PyNone == [t |-> "NoneType", v |-> <<>>]

PyStr(s) == [t |-> "str", v |-> s]

PyInt(n) == [t |-> "int", v |-> n]

PyList(xs) == [t |-> "list", v |-> xs]

PyDict(pairs) == [t |-> "dict", v |-> pairs]

\* the name Python prints for a value's type, as a str
TypeName(x) ==
    CASE x.t = "NoneType" -> <<"N", "o", "n", "e", "T", "y", "p", "e">>
      [] x.t = "str" -> <<"s", "t", "r">>
      [] x.t = "int" -> <<"i", "n", "t">>
      [] x.t = "list" -> <<"l", "i", "s", "t">>
      [] x.t = "dict" -> <<"d", "i", "c", "t">>

\* bool(x): None, 0 and empty containers are false
Truthy(x) ==
    CASE x.t = "NoneType" -> FALSE
      [] x.t = "int" -> x.v # 0
      [] OTHER -> x.v # <<>>

\* str(x), for the values str() is applied to (None, str, int)
Str(x) ==
    CASE x.t = "NoneType" -> S_None
      [] x.t = "str" -> x.v
      [] x.t = "int" -> IntToText(x.v)

\* isinstance(x, dict)
IsDict(x) == x.t = "dict"

\* the keys of a dict's pairs, in insertion order
Keys(pairs) == [i \in 1..Len(pairs) |-> pairs[i][1]]

HasKey(pairs, k) == \E i \in 1..Len(pairs) : pairs[i][1] = k

\* d.get(k, default) on the pairs of a dict
Get(pairs, k, default) ==
    IF HasKey(pairs, k) THEN pairs[IndexOf(Keys(pairs), k)][2] ELSE default

\* an assignment that leaves an existing key's value alone
SetItemKeepsFirst(pairs, k, val) ==
    IF HasKey(pairs, k) THEN pairs ELSE Append(pairs, <<k, val>>)

\* d[k] = val: an existing key keeps its position
SetItem(pairs, k, val) ==
    IF HasKey(pairs, k)
    THEN [i \in 1..Len(pairs) |-> IF pairs[i][1] = k THEN <<k, val>> ELSE pairs[i]]
    ELSE Append(pairs, <<k, val>>)

RECURSIVE Update(_, _)
\* d.update(other)
Update(pairs, other) ==
    IF other = <<>> THEN pairs
    ELSE Update(SetItem(pairs, other[1][1], other[1][2]), Tail(other))

(***************************************************************************)
(* Faults.  A computation yields [exc, val]: exc is NoFault or the raised  *)
(* exception, val is the returned value when nothing was raised.           *)
(***************************************************************************)
NoFault == [raised |-> FALSE, cls |-> "", msg |-> <<>>]

Exc(cls, m) == [raised |-> TRUE, cls |-> cls, msg |-> m]

Ok(val) == [exc |-> NoFault, val |-> val]

Raise(cls, m) == [exc |-> Exc(cls, m), val |-> PyNone]

\* AttributeError: '<type>' object has no attribute '<attr>'
AttributeError(x, attr) == <<"'">> \o TypeName(x) \o M_no_attr_pre \o attr \o <<"'">>

\* TypeError: unhashable type: '<type>'
UnhashableError(x) == M_unhashable \o TypeName(x) \o <<"'">>

\* TypeError: '<type>' object is not iterable
NotIterableError(x) == <<"'">> \o TypeName(x) \o M_not_iterable

\* x.get(k, default): only a dict has .get
GetAttrGet(x, k, default) ==
    IF IsDict(x) THEN Ok(Get(x.v, k, default)) ELSE Raise("AttributeError", AttributeError(x, <<"g", "e", "t">>))

\* iter(x): the items a for loop or a comprehension draws from x
Iter(x) ==
    CASE x.t = "list" -> Ok(x.v)
      [] x.t = "str" -> Ok([i \in 1..Len(x.v) |-> PyStr(<<x.v[i]>>)])
      [] x.t = "dict" -> Ok([i \in 1..Len(x.v) |-> PyStr(x.v[i][1])])
      [] OTHER -> Raise("TypeError", NotIterableError(x))

(***************************************************************************)
(* Identifier Extractor: _extract_identifier.                              *)
(***************************************************************************)
AlphaChars == Range(UpperAlpha) \cup Range(LowerAlpha)

DigitChars == Range(Digits)

\* [A-Za-z]
IsAlpha(c) == c \in AlphaChars

\* str.isdigit() on one character
IsDigit(c) == c \in DigitChars

\* \w of the regular expressions
IsWordChar(c) == c \in AlphaChars \cup DigitChars \cup {"_"}

\* [A-Za-z0-9._%+-]
IsLocalChar(c) == c \in AlphaChars \cup DigitChars \cup {".", "_", "%", "+", "-"}

\* [A-Za-z0-9.-]
IsDomainChar(c) == c \in AlphaChars \cup DigitChars \cup {".", "-"}

\* [A-Za-z0-9._-]
IsTokenChar(c) == c \in AlphaChars \cup DigitChars \cup {".", "_", "-"}

\* whether position p (0..Len+1) holds a word character
WordAt(text, p) == p >= 1 /\ p <= Len(text) /\ IsWordChar(text[p])

\* \b before position p (1..Len+1): a word character on exactly one side
Boundary(text, p) == WordAt(text, p - 1) # WordAt(text, p)

\* last position of the maximal run of InClass characters that starts at p
\* (p - 1 when the character at p is not in the class)
RunEnd(text, p, InClass(_)) ==
    CHOOSE q \in (p - 1)..Len(text) :
        /\ \A r \in p..q : InClass(text[r])
        /\ (q < Len(text) => ~InClass(text[q + 1]))

SetMax(S) == CHOOSE m \in S : \A o \in S : o <= m

SetMin(S) == CHOOSE m \in S : \A o \in S : m <= o

\* \.[A-Za-z]{2,}\b after a domain part ending at d, the letters running to te:
\* the end of the match, 0 if this does not match
TldMatch(text, d, te) ==
    IF text[d + 1] = "." /\ te - (d + 1) >= 2 /\ Boundary(text, te + 1) THEN te ELSE 0

\* [A-Za-z0-9.-]+\.[A-Za-z]{2,}\b from position ds, the domain characters
\* running to de: the greedy domain part backtracks to its longest match
DomainMatch(text, ds, de) ==
    SetMax({0} \cup {TldMatch(text, d, RunEnd(text, d + 2, IsAlpha)) : d \in ds..(de - 1)})

\* @ and the rest of email_pattern after a local part ending at le
AtMatch(text, i, le) ==
    IF le < i \/ le + 1 > Len(text) THEN 0
    ELSE IF text[le + 1] # "@" THEN 0
    ELSE DomainMatch(text, le + 2, RunEnd(text, le + 2, IsDomainChar))

\* the end of the match of email_pattern that starts at position i, 0 if none:
\* the greedy local part can only stop at "@"
EmailEndAt(text, i) ==
    IF Boundary(text, i) THEN AtMatch(text, i, RunEnd(text, i, IsLocalChar)) ELSE 0

\* the leftmost match given the match end for every start, <<>> if none
LeftmostMatch(text, ends) ==
    IF \A i \in 1..Len(text) : ends[i] = 0 THEN <<>>
    ELSE SubSeq(text, SetMin({i \in 1..Len(text) : ends[i] > 0}),
                ends[SetMin({i \in 1..Len(text) : ends[i] > 0})])

\* re.search(email_pattern, text), <<>> if there is no match
EmailSearch(text) == LeftmostMatch(text, [i \in 1..Len(text) |-> EmailEndAt(text, i)])

RECURSIVE TokensFrom(_, _)
\* a token of TokensFrom that starts at p and ends at e, and the tokens after it
TokenAt(text, p, e) == <<SubSeq(text, p, e)>> \o TokensFrom(text, e + 1)

\* re.findall(r"[A-Za-z0-9._-]+", text) from position p on
TokensFrom(text, p) ==
    IF p > Len(text) THEN <<>>
    ELSE IF ~IsTokenChar(text[p]) THEN TokensFrom(text, p + 1)
    ELSE TokenAt(text, p, RunEnd(text, p, IsTokenChar))

Tokens(text) == TokensFrom(text, 1)

\* the condition of the token loop of _extract_identifier
IsStructuredToken(tok) ==
    /\ Len(tok) >= 3
    /\ ~(\A i \in 1..Len(tok) : IsDigit(tok[i]))
    /\ ("." \in Range(tok) \/ "_" \in Range(tok))
    /\ \E i \in 1..Len(tok) : IsAlpha(tok[i])

\* a fallback that takes the first token instead of the last
PickTokenFirst(text, tokens, hits) ==
    IF hits # {} THEN tokens[SetMin(hits)]
    ELSE IF tokens # <<>> THEN tokens[1]
    ELSE text

\* the token loop and the final return of _extract_identifier
PickToken(text, tokens, hits) ==
    IF hits # {} THEN tokens[SetMin(hits)]
    ELSE IF tokens # <<>> THEN tokens[Len(tokens)]
    ELSE text

StructuredTokens(tokens) == {i \in 1..Len(tokens) : IsStructuredToken(tokens[i])}

PickIdentifier(text, email, tokens) ==
    IF email # <<>> THEN email ELSE PickToken(text, tokens, StructuredTokens(tokens))

ExtractIdentifier(text) == PickIdentifier(text, EmailSearch(text), Tokens(text))

(***************************************************************************)
(* Fuzzy Matcher: _suggest_match over difflib.get_close_matches.           *)
(***************************************************************************)
\* the characters of the model in code point order, for str comparison
CodePoints ==
    <<" ", "%", "'", "+", ",", "-", ".">> \o Digits \o <<":", ";", "@">>
        \o UpperAlpha \o <<"[", "]", "_">> \o LowerAlpha \o <<"{", "}">>

Ord(c) == IndexOf(CodePoints, c)

RECURSIVE StrLess(_, _)
\* a < b on strs
StrLess(a, b) ==
    IF b = <<>> THEN FALSE
    ELSE IF a = <<>> THEN TRUE
    ELSE IF a[1] = b[1] THEN StrLess(Tail(a), Tail(b))
    ELSE Ord(a[1]) < Ord(b[1])

RECURSIVE CommonLen(_, _, _, _)
\* length of the longest common run of a from i and b from j
CommonLen(a, b, i, j) ==
    IF i > Len(a) \/ j > Len(b) THEN 0
    ELSE IF a[i] # b[j] THEN 0
    ELSE 1 + CommonLen(a, b, i + 1, j + 1)

\* the longest block of length k in the table of common run lengths: the
\* earliest start in a, then the earliest start in b
EarliestBlock(lens, k, i) ==
    <<i, SetMin({p[2] : p \in {q \in DOMAIN lens : q[1] = i /\ lens[q] = k}}), k>>

LongestBlock(lens, k) ==
    EarliestBlock(lens, k, SetMin({p[1] : p \in {q \in DOMAIN lens : lens[q] = k}}))

PickBlock(lens) == LongestBlock(lens, SetMax({lens[p] : p \in DOMAIN lens}))

\* SequenceMatcher.find_longest_match on non-empty a and b: <<i, j, k>>
LongestMatch(a, b) ==
    PickBlock([p \in (1..Len(a)) \X (1..Len(b)) |-> CommonLen(a, b, p[1], p[2])])

RECURSIVE MatchCount(_, _)
\* the matches around the longest block m: the block, and the matching blocks
\* of what is left of it and of what is right of it
MatchAround(a, b, m) ==
    IF m[3] = 0 THEN 0
    ELSE m[3]
         + MatchCount(SubSeq(a, 1, m[1] - 1), SubSeq(b, 1, m[2] - 1))
         + MatchCount(SubSeq(a, m[1] + m[3], Len(a)), SubSeq(b, m[2] + m[3], Len(b)))

\* the total size of SequenceMatcher.get_matching_blocks
MatchCount(a, b) ==
    IF a = <<>> \/ b = <<>> THEN 0 ELSE MatchAround(a, b, LongestMatch(a, b))

\* the cutoff 0.7 as a fraction
CutoffNum == 7

CutoffDen == 10

\* ratio() >= cutoff for a possibility x with the given number of matches;
\* ratio = 2.0 * matches / (len(x) + len(word)), 1.0 when both are empty
RatioAtLeastCutoff(x, word, matches) ==
    IF Len(x) + Len(word) = 0 THEN TRUE
    ELSE 2 * matches * CutoffDen >= CutoffNum * (Len(x) + Len(word))

\* (ratio(x), x) < (ratio(y), y), as nlargest orders the scored possibilities
ScoredLess(x, mx, y, my, word) ==
    \/ mx * (Len(y) + Len(word)) < my * (Len(x) + Len(word))
    \/ /\ mx * (Len(y) + Len(word)) = my * (Len(x) + Len(word))
       /\ StrLess(x, y)

\* the possibilities whose ratio reaches the cutoff
CloseOnes(word, possibilities, matches) ==
    {i \in 1..Len(possibilities) : RatioAtLeastCutoff(possibilities[i], word, matches[i])}

\* nlargest(1, ...): the best of the close possibilities, <<>> if there is none
BestOf(word, possibilities, matches, close) ==
    IF close = {} THEN <<>>
    ELSE <<possibilities[CHOOSE i \in close :
              \A j \in close : ~ScoredLess(possibilities[i], matches[i],
                                           possibilities[j], matches[j], word)]>>

BestClose(word, possibilities, matches) ==
    BestOf(word, possibilities, matches, CloseOnes(word, possibilities, matches))

\* difflib.get_close_matches(word, possibilities, n=1, cutoff=0.7)
GetCloseMatches(word, possibilities) ==
    BestClose(word, possibilities,
              [i \in 1..Len(possibilities) |-> MatchCount(possibilities[i], word)])

\* c.split('@')[0]
LocalPart(c) == IF "@" \in Range(c) THEN SubSeq(c, 1, IndexOf(c, "@") - 1) ELSE c

\* the fallback of _suggest_match: match against the local parts
LocalPartHit(lower_candidates, local_parts, match) ==
    IF match # <<>> THEN PyStr(lower_candidates[IndexOf(local_parts, match[1])])
    ELSE PyNone

LocalPartPass(word, lower_candidates, local_parts) ==
    LocalPartHit(lower_candidates, local_parts, GetCloseMatches(word, local_parts))

\* the first pass of _suggest_match: match against the whole candidates
WholePass(word, lower_candidates, matches) ==
    IF matches # <<>> THEN PyStr(matches[1])
    ELSE LocalPartPass(word, lower_candidates,
                       [i \in 1..Len(lower_candidates) |-> LocalPart(lower_candidates[i])])

SuggestLowered(word, lower_candidates) ==
    WholePass(word, lower_candidates, GetCloseMatches(word, lower_candidates))

\* _suggest_match on a non-empty str and a non-empty list of strs:
\* PyNone or PyStr(match)
SuggestMatchStr(value, candidates) ==
    SuggestLowered(Lower(value), [i \in 1..Len(candidates) |-> Lower(candidates[i])])

\* _suggest_match on the items of candidates: c.lower() raises for a non-str
SuggestAmong(value, items, bad) ==
    IF bad # {}
    THEN Raise("AttributeError", AttributeError(items[SetMin(bad)], <<"l", "o", "w", "e", "r">>))
    ELSE Ok(SuggestMatchStr(value, [i \in 1..Len(items) |-> items[i].v]))

SuggestOver(value, items) ==
    IF items.exc.raised THEN items
    ELSE SuggestAmong(value, items.val, {i \in 1..Len(items.val) : items.val[i].t # "str"})

\* _suggest_match(value, candidates): value a str, candidates any value
SuggestMatch(value, candidates) ==
    IF value = <<>> \/ ~Truthy(candidates) THEN Ok(PyNone)
    ELSE SuggestOver(value, Iter(candidates))

(***************************************************************************)
(* ReasoningResult and the engine's construction.                          *)
(***************************************************************************)
\* ReasoningResult(): updated_request and actions default to empty
ReasoningResult ==
    [resolved |-> FALSE, resolution |-> <<>>, updated_request |-> <<>>, actions |-> <<>>]

\* the default of the max_iterations parameter
DefaultMaxIterations == 3

MinCap == 1

MaxCap == 10

Min(a, b) == IF a <= b THEN a ELSE b

Max(a, b) == IF a >= b THEN a ELSE b

\* a clamp without the lower limit
ClampUpperOnly(requested) == Min(requested, MaxCap)

\* self.max_iterations = max(1, min(max_iterations, 10))
ClampIterations(requested) == Max(MinCap, Min(requested, MaxCap))

(***************************************************************************)
(* Context normalization: collect_environment_context, aggregate_context.  *)
(* probe tells which of os.getcwd(), the USER variable and os.uname() the  *)
(* process can deliver.                                                    *)
(***************************************************************************)
V_cwd ==
    <<"/", "o", "p", "t">>

V_user ==
    <<"s", "v", "c">>

V_unknown ==
    <<"u", "n", "k", "n", "o", "w", "n">>

V_hostname ==
    <<"h", "o", "s", "t">>

\* str(FileNotFoundError) of a failed os.getcwd()
M_getcwd_failed ==
    <<"[", "E", "r", "r", "n", "o", " ", "2", "]", " ", "N", "o", " ", "s", "u", "c", "h", " ", "f", "i", "l", "e", " ", "o", "r", " ", "d", "i", "r", "e", "c", "t", "o", "r", "y">>

CollectEnvironmentContext(probe) ==
    IF probe.cwd /\ probe.uname
    THEN Ok(PyDict(<<<<K_cwd, PyStr(V_cwd)>>,
                     <<K_user, PyStr(IF probe.user THEN V_user ELSE V_unknown)>>,
                     <<K_hostname, PyStr(V_hostname)>>>>))
    ELSE IF probe.cwd THEN Ok(PyDict(<<<<K_cwd, PyStr(V_cwd)>>>>))
    ELSE Raise("FileNotFoundError", M_getcwd_failed)

\* hash(x) raises for a list or a dict
Unhashable(x) == x.t \in {"list", "dict"}

RECURSIVE DedupeNewestFirst(_, _)
\* a deduplication that puts each new entry in front
DedupeNewestFirst(xs, seen) ==
    IF xs = <<>> THEN seen
    ELSE IF \E i \in 1..Len(seen) : seen[i] = Head(xs) THEN DedupeNewestFirst(Tail(xs), seen)
    ELSE DedupeNewestFirst(Tail(xs), <<Head(xs)>> \o seen)

RECURSIVE Dedupe(_, _)
\* list(dict.fromkeys(xs)): first occurrences in order; seen is the result so far
Dedupe(xs, seen) ==
    IF xs = <<>> THEN seen
    ELSE IF \E i \in 1..Len(seen) : seen[i] = Head(xs) THEN Dedupe(Tail(xs), seen)
    ELSE Dedupe(Tail(xs), Append(seen, Head(xs)))

\* the slice bound of unique_vals[-50:]
ListCap == 50

\* a slice that keeps the oldest entries, xs[:ListCap]
LastEntriesOldest(xs) == IF Len(xs) <= ListCap THEN xs ELSE SubSeq(xs, 1, ListCap)

\* xs[-ListCap:]
LastEntries(xs) == IF Len(xs) <= ListCap THEN xs ELSE SubSeq(xs, Len(xs) - ListCap + 1, Len(xs))

RECURSIVE AggregateItems(_, _)
\* the loop of aggregate_context over context.items()
AggregateItems(items, aggregated) ==
    IF items = <<>> THEN Ok(aggregated)
    ELSE LET key == items[1][1]
             value == items[1][2]
         IN IF value.t = "NoneType" THEN AggregateItems(Tail(items), aggregated)
            ELSE IF value.t = "list"
            THEN IF \E i \in 1..Len(value.v) : Unhashable(value.v[i])
                 THEN Raise("TypeError", UnhashableError(
                          value.v[CHOOSE i \in 1..Len(value.v) :
                                     /\ Unhashable(value.v[i])
                                     /\ \A j \in 1..(i - 1) : ~Unhashable(value.v[j])]))
                 ELSE AggregateItems(Tail(items),
                          SetItem(aggregated, key, PyList(LastEntries(Dedupe(value.v, <<>>)))))
            ELSE IF value.t = "dict"
            THEN AggregateItems(Tail(items),
                     IF value.v # <<>> THEN SetItem(aggregated, key, value) ELSE aggregated)
            ELSE AggregateItems(Tail(items), SetItem(aggregated, key, value))

\* the end of aggregate_context: aggregated["environment"] = the probe's result
AggregateEnvironment(looped, env) ==
    IF looped.exc.raised THEN looped
    ELSE IF env.exc.raised THEN env
    ELSE Ok(PyDict(SetItem(looped.val, K_environment, env.val)))

\* aggregate_context(context) for a dict context: [exc, val]
AggregateContext(context, probe) ==
    AggregateEnvironment(AggregateItems(context.v, <<>>), CollectEnvironmentContext(probe))

(***************************************************************************)
(* Root-Cause Classifier and Remediation Advisor.                          *)
(***************************************************************************)
\* a classifier that tests "permission" before "timeout" and "network"
ClassifyPermissionFirst(msg) ==
    IF Contains(S_permission, msg) THEN PyStr(C_PermissionDenied)
    ELSE IF Contains(S_timeout, msg) THEN PyStr(C_Timeout)
    ELSE IF Contains(S_network, msg) THEN PyStr(C_NetworkError)
    ELSE IF Contains(S_rate, msg) /\ Contains(S_limit, msg) THEN PyStr(C_RateLimit)
    ELSE PyNone

\* the rules of _root_cause_analysis on msg.lower(); None when no rule matches
Classify(msg) ==
    IF Contains(S_timeout, msg) THEN PyStr(C_Timeout)
    ELSE IF Contains(S_network, msg) THEN PyStr(C_NetworkError)
    ELSE IF Contains(S_permission, msg) THEN PyStr(C_PermissionDenied)
    ELSE IF Contains(S_rate, msg) /\ Contains(S_limit, msg) THEN PyStr(C_RateLimit)
    ELSE PyNone

\* _root_cause_analysis(issue)
RootCauseAnalysis(issue) == Classify(Lower(Str(Get(issue.v, K_Error, PyStr(<<>>)))))

\* an advisor that also auto-resolves a rate limit
SuggestNextStepsRateLimitResolved(cause) ==
    IF cause = PyStr(C_Timeout) THEN <<TRUE, <<M_Retry>>>>
    ELSE IF cause = PyStr(C_NetworkError) THEN <<TRUE, <<M_Check_network>>>>
    ELSE IF cause = PyStr(C_PermissionDenied) THEN <<FALSE, <<M_Verify_permissions>>>>
    ELSE IF cause = PyStr(C_RateLimit) THEN <<TRUE, <<M_Wait>>>>
    ELSE <<FALSE, <<M_Escalate_operator>>>>

\* _suggest_next_steps(cause): <<resolved, actions>>
SuggestNextSteps(cause) ==
    IF cause = PyStr(C_Timeout) THEN <<TRUE, <<M_Retry>>>>
    ELSE IF cause = PyStr(C_NetworkError) THEN <<TRUE, <<M_Check_network>>>>
    ELSE IF cause = PyStr(C_PermissionDenied) THEN <<FALSE, <<M_Verify_permissions>>>>
    ELSE IF cause = PyStr(C_RateLimit) THEN <<FALSE, <<M_Wait>>>>
    ELSE <<FALSE, <<M_Escalate_operator>>>>

(***************************************************************************)
(* Issue resolvers.  Each yields [exc, val] with val a ReasoningResult.    *)
(***************************************************************************)
\* repr of a str without quote characters
ReprStr(s) == <<"'">> \o s \o <<"'">>

\* repr of a dict of strs: {'k': 'v', ...} in insertion order
ReprDict(pairs) ==
    <<"{">>
    \o Join(<<",", " ">>,
            [i \in 1..Len(pairs) |-> ReprStr(pairs[i][1]) \o <<":", " ">> \o ReprStr(pairs[i][2].v)])
    \o <<"}">>

RECURSIVE CollectSuggestions(_, _, _)
\* the end of one round of the loop over errors: record a match
CollectFound(errors, context, suggestions, identifier, found) ==
    IF found.exc.raised THEN found
    ELSE CollectSuggestions(Tail(errors), context,
             IF Truthy(found.val) THEN SetItem(suggestions, identifier, found.val)
             ELSE suggestions)

\* one round of the loop over errors: "user" first, else "mailbox"
CollectFor(errors, context, suggestions, lowered, identifier) ==
    CollectFound(errors, context, suggestions, identifier,
        IF Contains(S_user, lowered)
        THEN SuggestMatch(identifier, Get(context.v, K_KnownUsers, PyList(<<>>)))
        ELSE IF Contains(S_mailbox, lowered)
        THEN SuggestMatch(identifier, Get(context.v, K_KnownMailboxes, PyList(<<>>)))
        ELSE Ok(PyNone))

\* the loop over errors of _resolve_validation_failure: [exc, val], val the
\* suggestions as pairs <<identifier, match>>
CollectSuggestions(errors, context, suggestions) ==
    IF errors = <<>> THEN Ok(suggestions)
    ELSE IF Head(errors).t # "str"
    THEN Raise("AttributeError", AttributeError(Head(errors), <<"l", "o", "w", "e", "r">>))
    ELSE CollectFor(errors, context, suggestions,
                    Lower(Head(errors).v), ExtractIdentifier(Head(errors).v))

\* the end of _resolve_validation_failure: corrections, or the raw errors
ResolveFound(items, found) ==
    IF found.exc.raised THEN found
    ELSE IF found.val # <<>>
    THEN Ok([ReasoningResult EXCEPT
                !.resolved = TRUE,
                !.resolution = M_corrections_applied,
                !.updated_request = <<<<K_Corrections, PyDict(found.val)>>>>,
                !.actions = <<M_Applied_corrections \o ReprDict(found.val)>>])
    ELSE Ok([ReasoningResult EXCEPT
                !.resolution = M_unable,
                !.actions = <<M_Validation_errors
                              \o Join(<<";", " ">>, [i \in 1..Len(items) |-> items[i].v])>>])

ResolveItems(context, items) ==
    IF items.exc.raised THEN items
    ELSE ResolveFound(items.val, CollectSuggestions(items.val, context, <<>>))

\* a resolver without the warnings-only branch
ResolveErrorsIgnoringWarnings(context, errors, warnings) ==
    IF errors.exc.raised THEN errors ELSE ResolveItems(context, Iter(errors.val))

\* _resolve_validation_failure after errors was read: warnings only, or the loop
ResolveErrors(context, errors, warnings) ==
    IF errors.exc.raised THEN errors
    ELSE IF ~Truthy(errors.val) /\ Truthy(warnings.val)
    THEN Ok([ReasoningResult EXCEPT !.resolved = TRUE,
                                    !.resolution = M_warnings_acknowledged])
    ELSE ResolveItems(context, Iter(errors.val))

ResolveValidationResult(context, vr) ==
    ResolveErrors(context, GetAttrGet(vr, K_Errors, PyList(<<>>)),
                  GetAttrGet(vr, K_Warnings, PyNone))

ResolveValidationFailure(issue, context) ==
    ResolveValidationResult(context, Get(issue.v, K_ValidationResult, PyDict(<<>>)))

\* _resolve_tool_error after the advisor answered
ToolErrorResult(issue, cause, steps) ==
    Ok([ReasoningResult EXCEPT
           !.resolved = steps[1],
           !.resolution = IF steps[1] THEN M_Automatic ELSE M_Tool_analyzed,
           !.actions = <<M_Error_prefix \o Str(Get(issue.v, K_Error, PyNone)),
                         M_RootCause_prefix \o Str(cause)>> \o steps[2]])

ToolErrorCause(issue, cause) == ToolErrorResult(issue, cause, SuggestNextSteps(cause))

ResolveToolError(issue, context) == ToolErrorCause(issue, RootCauseAnalysis(issue))

\* a resolver that resolves once a LowerBound is reported
LowConfidenceResultResolving(stage, lb) ==
    IF lb.exc.raised THEN lb
    ELSE Ok([ReasoningResult EXCEPT
                !.resolved = lb.val.t # "NoneType",
                !.resolution = M_Low_confidence \o Str(stage),
                !.actions = (IF lb.val.t # "NoneType"
                             THEN <<M_LowerBound_prefix \o Str(lb.val)>>
                             ELSE <<>>) \o <<M_Reanalyzing>>])

\* _resolve_low_confidence after metrics.get("LowerBound")
LowConfidenceResult(stage, lb) ==
    IF lb.exc.raised THEN lb
    ELSE Ok([ReasoningResult EXCEPT
                !.resolution = M_Low_confidence \o Str(stage),
                !.actions = (IF lb.val.t # "NoneType"
                             THEN <<M_LowerBound_prefix \o Str(lb.val)>>
                             ELSE <<>>) \o <<M_Reanalyzing>>])

ResolveLowConfidence(issue, context) ==
    LowConfidenceResult(Get(issue.v, K_Stage, PyStr(<<>>)),
                        GetAttrGet(Get(issue.v, K_Metrics, PyDict(<<>>)), K_LowerBound, PyNone))

\* the routing of _dispatch on issue.get("Type")
DispatchByType(issue_type, issue, context) ==
    IF issue_type = PyStr(T_ValidationFailure) THEN ResolveValidationFailure(issue, context)
    ELSE IF issue_type = PyStr(T_ToolError) THEN ResolveToolError(issue, context)
    ELSE IF issue_type = PyStr(T_LowConfidence) THEN ResolveLowConfidence(issue, context)
    ELSE Ok([ReasoningResult EXCEPT !.resolution = M_Unknown_issue_type])

\* _dispatch(issue, context)
Dispatch(issue, context) == DispatchByType(Get(issue.v, K_Type, PyNone), issue, context)

\* a validation that forgets the context
ValidateIssueOnly(issue, context) ==
    IF ~IsDict(issue) THEN Raise("ValueError", M_issue_must_be_dict) ELSE Ok(PyNone)

\* _validate_inputs(issue, context)
ValidateInputs(issue, context) ==
    IF ~IsDict(issue) THEN Raise("ValueError", M_issue_must_be_dict)
    ELSE IF ~IsDict(context) THEN Raise("ValueError", M_context_must_be_dict)
    ELSE Ok(PyNone)
T_Other ==
    <<"O", "t", "h", "e", "r">>
E_user_bob ==
    <<"u", "s", "e", "r", " ", "b", "o", "b", ".", "s", "m", "i", "h", "t", " ", "n", "o", "t", " ", "f", "o", "u", "n", "d">>
E_mailbox_zzz ==
    <<"m", "a", "i", "l", "b", "o", "x", " ", "z", "z", "z", " ", "m", "i", "s", "s", "i", "n", "g">>
E_user_ab ==
    <<"U", "s", "e", "r", " ", "a", "_", "b", " ", "g", "o", "n", "e">>
E_mailbox_ab ==
    <<"m", "a", "i", "l", "b", "o", "x", " ", "a", "_", "b", " ", "f", "u", "l", "l">>
E_both ==
    <<"u", "s", "e", "r", " ", "m", "a", "i", "l", "b", "o", "x", " ", "a", "_", "b", " ", "f", "u", "l", "l">>
E_plain ==
    <<"q", "u", "o", "t", "a", " ", "e", "x", "c", "e", "e", "d", "e", "d">>
W_soft ==
    <<"s", "o", "f", "t", " ", "l", "i", "m", "i", "t">>
U_bob ==
    <<"B", "o", "b", ".", "S", "m", "i", "t", "h", "@", "x", ".", "g", "o", "v">>
U_ab ==
    <<"a", "_", "b", "@", "x", ".", "g", "o", "v">>
U_amy ==
    <<"a", "m", "y">>
B_ab ==
    <<"a", "_", "b", "1">>
B_shared ==
    <<"s", "h", "a", "r", "e", "d", "_", "0", "1">>
X_conn_timeout ==
    <<"C", "o", "n", "n", "e", "c", "t", "i", "o", "n", " ", "t", "i", "m", "e", "o", "u", "t">>
X_network ==
    <<"N", "e", "t", "w", "o", "r", "k", " ", "d", "o", "w", "n">>
X_net_timeout ==
    <<"N", "e", "t", "w", "o", "r", "k", " ", "T", "i", "m", "e", "o", "u", "t">>
X_permission ==
    <<"P", "e", "r", "m", "i", "s", "s", "i", "o", "n", " ", "d", "e", "n", "i", "e", "d">>
X_rate ==
    <<"R", "a", "t", "e", " ", "l", "i", "m", "i", "t", " ", "h", "i", "t">>
X_boom ==
    <<"b", "o", "o", "m">>
G_plan ==
    <<"p", "l", "a", "n">>
K_History ==
    <<"H", "i", "s", "t", "o", "r", "y">>
K_Session ==
    <<"S", "e", "s", "s", "i", "o", "n">>
K_Note ==
    <<"N", "o", "t", "e">>
M_recursion ==
    <<"m", "a", "x", "i", "m", "u", "m", " ", "r", "e", "c", "u", "r", "s", "i", "o", "n", " ", "d", "e", "p", "t", "h", " ", "e", "x", "c", "e", "e", "d", "e", "d">>

(***************************************************************************)
(* The calls the model makes: requested caps, issues, contexts, probes.    *)
(***************************************************************************)
\* requested max_iterations range from -2 to MaxRequested, and 50
MaxRequested == 12

Requested == (-2..MaxRequested) \cup {50, DefaultMaxIterations}

StrList(texts) == PyList([i \in 1..Len(texts) |-> PyStr(texts[i])])

\* a ValidationFailure issue with the given ValidationResult value
ValidationIssue(vr) ==
    PyDict(<<<<K_Type, PyStr(T_ValidationFailure)>>, <<K_ValidationResult, vr>>>>)

ToolIssue(msg) ==
    PyDict(<<<<K_Type, PyStr(T_ToolError)>>, <<K_Error, PyStr(msg)>>>>)

Issues ==
    << PyInt(3),
       PyNone,
       PyDict(<<>>),
       PyDict(<<<<K_Type, PyStr(T_Other)>>, <<K_Error, PyStr(X_boom)>>>>),
       ValidationIssue(PyDict(<<<<K_Errors, StrList(<<E_user_bob>>)>>>>)),
       ValidationIssue(PyDict(<<<<K_Errors, StrList(<<E_mailbox_zzz>>)>>>>)),
       ValidationIssue(PyDict(<<<<K_Errors, StrList(<<E_user_ab, E_plain, E_mailbox_ab>>)>>>>)),
       ValidationIssue(PyDict(<<<<K_Errors, StrList(<<E_plain, E_mailbox_zzz>>)>>,
                               <<K_Warnings, StrList(<<W_soft>>)>>>>)),
       ValidationIssue(PyDict(<<<<K_Warnings, StrList(<<W_soft>>)>>>>)),
       ValidationIssue(PyDict(<<<<K_Errors, PyList(<<>>)>>,
                               <<K_Warnings, StrList(<<W_soft, W_soft>>)>>>>)),
       ValidationIssue(PyDict(<<<<K_Errors, PyList(<<>>)>>>>)),
       ValidationIssue(PyNone),
       ValidationIssue(PyDict(<<<<K_Errors, PyList(<<PyInt(5)>>)>>>>)),
       ToolIssue(X_conn_timeout),
       ToolIssue(X_network),
       ToolIssue(X_net_timeout),
       ToolIssue(X_permission),
       ToolIssue(X_rate),
       ToolIssue(X_boom),
       PyDict(<<<<K_Type, PyStr(T_ToolError)>>>>),
       PyDict(<<<<K_Type, PyStr(T_LowConfidence)>>, <<K_Stage, PyStr(G_plan)>>,
                <<K_Metrics, PyDict(<<<<K_LowerBound, PyInt(2)>>>>)>>>>),
       PyDict(<<<<K_Type, PyStr(T_LowConfidence)>>, <<K_Stage, PyStr(G_plan)>>,
                <<K_Metrics, PyDict(<<<<K_LowerBound, PyNone>>>>)>>>>),
       PyDict(<<<<K_Type, PyStr(T_LowConfidence)>>>>),
       PyDict(<<<<K_Type, PyStr(T_LowConfidence)>>, <<K_Metrics, PyNone>>>>),
       ValidationIssue(PyDict(<<<<K_Errors, StrList(<<E_both>>)>>>>)) >>

\* the longest list given to aggregate_context
MaxListLen == 60

\* a list of n ints that cycles through m values
NumberList(n, m) == PyList([i \in 1..n |-> PyInt(i % m)])

Contexts ==
    << PyList(<<>>),
       PyDict(<<>>),
       PyDict(<<<<K_KnownUsers, StrList(<<U_bob, U_ab, U_amy, U_ab>>)>>,
                <<K_KnownMailboxes, StrList(<<B_ab, B_shared>>)>>,
                <<K_Note, PyNone>>,
                <<K_Session, PyDict(<<>>)>>>>),
       PyDict(<<<<K_KnownUsers, StrList(<<U_amy>>)>>,
                <<K_History, PyList(<<PyDict(<<>>)>>)>>>>),
       PyDict(<<<<K_environment, PyStr(U_amy)>>,
                <<K_History, NumberList(MaxListLen, ListCap + 3)>>,
                <<K_KnownUsers, StrList(<<U_bob>>)>>,
                <<K_KnownMailboxes, StrList(<<B_ab>>)>>,
                <<K_Session, PyDict(<<<<K_Note, PyNone>>>>)>>>>) >>

\* which of os.getcwd(), the USER variable and os.uname() are available
Probes == [cwd : BOOLEAN, user : BOOLEAN, uname : BOOLEAN]

\* str(exc) of a fault raised unexpectedly while a resolver runs
UnexpectedFaults == {M_recursion}

(***************************************************************************)
(* State.                                                                  *)
(***************************************************************************)
VARIABLES
    pc,                 \* where the engine is: new, ready, validate, normalize,
                        \* loop, after, returned, raised
    requested,          \* the max_iterations argument of the constructor
    max_iterations,     \* self.max_iterations
    issue,              \* the caller's issue object (current_issue is the same object)
    context,            \* the caller's context object
    issue0,             \* the value of issue when resolve was called
    context0,           \* the value of context when resolve was called
    normalized_context, \* the local of resolve
    attempt,            \* the loop variable of resolve
    result,             \* the local of resolve, returned at the end
    dispatches,         \* number of calls of _dispatch in this resolve call
    last,               \* the result the latest completed _dispatch returned
    fault               \* the fault raised in this call: [at, attempt, msg]

\* Concurrent resolve calls on one engine (used by SpecConcurrent only).
VARIABLES
    frames,             \* the locals of each resolve call in progress, by frame
    given               \* by caller: the issue, context and probe of its call, the
                        \* result the call returns when run alone, and whether
                        \* it ran statements while another call was under way

\* the state of one resolve call on its own
call_vars ==
    <<pc, issue, context, issue0, context0, normalized_context, attempt, result,
      dispatches, last, fault>>

engine_vars == <<requested, max_iterations>>

concurrent_vars == <<frames, given>>

\* Context normalization on its own (used by SpecNormalize only).
VARIABLES
    norm_pc,            \* idle, given, once, twice, failed
    raw,                \* the context given to aggregate_context
    once,               \* aggregate_context(raw): [exc, val]
    twice               \* aggregate_context(once.val): [exc, val]

normalize_vars == <<norm_pc, raw, once, twice>>

\* The process environment the probe reads.
VARIABLES
    available           \* which of os.getcwd(), the USER variable and os.uname()
                        \* deliver a value when the call normalizes its context

environment_vars == <<available>>

\* Root-cause classification on its own (used by SpecClassify only).
VARIABLES
    tool_pc,            \* idle, reported, analyzed, advised
    report,             \* the issue given to _root_cause_analysis
    cause,              \* what _root_cause_analysis returned
    advice              \* what _suggest_next_steps returned: <<resolved, actions>>

classify_vars == <<tool_pc, report, cause, advice>>

\* _suggest_match on its own (used by SpecSuggest only)
VARIABLES suggest_pc, value, candidates, suggestion

suggest_vars == <<suggest_pc, value, candidates, suggestion>>

\* _extract_identifier on its own (used by SpecExtract only)
VARIABLES extract_pc, text, identifier

extract_vars == <<extract_pc, text, identifier>>

\* MCPBridge.send over the shared pipe (used by SpecBridge only)
VARIABLES
    send_pc,            \* per send call: idle, reading, handling, returned, raised
    request_id,         \* per send call: its request id, 0 before it is drawn
    stdin,              \* the request lines the server has not read yet
    stdout,             \* the lines the server wrote that nobody has read yet
    alive,              \* whether the server process is running
    line,               \* per send call: <<the line its readline returned>>
    outcome,            \* per send call: what it returned or raised
    discarded,          \* the lines a send call read and dropped
    logged              \* how many lines that are not JSON the server wrote

bridge_vars == <<send_pc, request_id, stdin, stdout, alive, line, outcome, discarded, logged>>

\* AUXVARS
aux == <<concurrent_vars, normalize_vars, environment_vars, classify_vars, suggest_vars, extract_vars, bridge_vars>>

\* the variables a specification of one part leaves alone
beside_resolve == <<concurrent_vars, normalize_vars, classify_vars, suggest_vars, extract_vars, bridge_vars>>

beside_concurrent == <<call_vars, engine_vars, normalize_vars, environment_vars, classify_vars, suggest_vars, extract_vars, bridge_vars>>

beside_normalize == <<call_vars, engine_vars, concurrent_vars, environment_vars, classify_vars, suggest_vars, extract_vars, bridge_vars>>

beside_classify == <<call_vars, engine_vars, concurrent_vars, environment_vars, normalize_vars, suggest_vars, extract_vars, bridge_vars>>

beside_suggest == <<call_vars, engine_vars, concurrent_vars, normalize_vars, environment_vars, classify_vars, extract_vars, bridge_vars>>

beside_extract == <<call_vars, engine_vars, concurrent_vars, normalize_vars, environment_vars, classify_vars, suggest_vars, bridge_vars>>

beside_bridge == <<call_vars, engine_vars, concurrent_vars, normalize_vars, environment_vars, classify_vars, suggest_vars, extract_vars>>

vars == <<call_vars, engine_vars, aux>>

ConcurrentIdle ==
    /\ frames = <<>>
    /\ given = <<>>

NormalizeIdle ==
    /\ norm_pc = "idle"
    /\ raw = PyNone
    /\ once = Ok(PyNone)
    /\ twice = Ok(PyNone)

EnvironmentIdle == available = [cwd |-> TRUE, user |-> TRUE, uname |-> TRUE]

ClassifyIdle ==
    /\ tool_pc = "idle"
    /\ report = PyNone
    /\ cause = PyNone
    /\ advice = <<FALSE, <<>>>>

SuggestIdle ==
    /\ suggest_pc = "idle"
    /\ value = <<>>
    /\ candidates = <<>>
    /\ suggestion = PyNone

ExtractIdle ==
    /\ extract_pc = "idle"
    /\ text = <<>>
    /\ identifier = <<>>

\* the concurrently pending send calls
Senders == {1, 2}

NoOutcome == [kind |-> "none", id |-> 0]

BridgeIdle ==
    /\ send_pc = [i \in Senders |-> "idle"]
    /\ request_id = [i \in Senders |-> 0]
    /\ stdin = <<>>
    /\ stdout = <<>>
    /\ alive = TRUE
    /\ line = [i \in Senders |-> <<>>]
    /\ outcome = [i \in Senders |-> NoOutcome]
    /\ discarded = {}
    /\ logged = 0

\* AUXIDLE
AuxIdle == ConcurrentIdle /\ NormalizeIdle /\ EnvironmentIdle /\ ClassifyIdle /\ SuggestIdle /\ ExtractIdle /\ BridgeIdle

NoFaultYet == [at |-> "none", attempt |-> 0, msg |-> <<>>]

Init ==
    /\ pc = "new"
    /\ requested = DefaultMaxIterations
    /\ max_iterations = DefaultMaxIterations
    /\ issue = PyNone
    /\ context = PyNone
    /\ issue0 = PyNone
    /\ context0 = PyNone
    /\ normalized_context = PyNone
    /\ attempt = 0
    /\ result = ReasoningResult
    /\ dispatches = 0
    /\ last = ReasoningResult
    /\ fault = NoFaultYet
    /\ AuxIdle

(***************************************************************************)
(* resolve, one step at a time.                                            *)
(***************************************************************************)
\* the exception classes the model raises; all derive from Exception
ExceptionClasses ==
    {"ValueError", "AttributeError", "TypeError", "FileNotFoundError", "RecursionError"}

\* a handler written as except ValueError
CaughtValueErrorOnly(exc) == exc.cls = "ValueError"

\* except Exception: whether the handler of resolve catches exc
Caught(exc) == exc.cls \in ExceptionClasses

\* the handler of resolve: result.resolution = str(exc), then return result;
\* a fault the handler does not catch leaves resolve
HandleFault(exc, where) ==
    /\ fault' = [at |-> where, attempt |-> attempt, msg |-> exc.msg]
    /\ IF Caught(exc)
       THEN /\ result' = [result EXCEPT !.resolution = exc.msg]
            /\ pc' = "returned"
       ELSE /\ result' = result
            /\ pc' = "raised"

\* InternalReasoningEngine(max_iterations=r)
Construct ==
    /\ pc = "new"
    /\ \E r \in Requested :
          /\ requested' = r
          /\ max_iterations' = ClampIterations(r)
    /\ pc' = "ready"
    /\ UNCHANGED <<issue0, context0, issue, context, normalized_context, attempt, result,
                   dispatches, last, fault>>
    /\ UNCHANGED aux

\* resolve(issue, context) is called: result = ReasoningResult()
Call ==
    /\ pc = "ready"
    /\ \E i \in 1..Len(Issues), c \in 1..Len(Contexts) :
          /\ issue' = Issues[i]
          /\ context' = Contexts[c]
          /\ issue0' = Issues[i]
          /\ context0' = Contexts[c]
    /\ result' = ReasoningResult
    /\ pc' = "validate"
    /\ UNCHANGED <<requested, max_iterations, normalized_context, attempt,
                   dispatches, last, fault>>
    /\ UNCHANGED aux

\* after self._validate_inputs(issue, context) yielded o
Validated(o) ==
    IF o.exc.raised
    THEN HandleFault(o.exc, "validate")
    ELSE /\ pc' = "normalize"
         /\ UNCHANGED <<result, fault>>

\* self._validate_inputs(issue, context)
Validate ==
    /\ pc = "validate"
    /\ Validated(ValidateInputs(issue, context))
    /\ UNCHANGED <<issue0, context0, requested, max_iterations, issue, context, normalized_context,
                   attempt, dispatches, last>>
    /\ UNCHANGED aux

\* after self.aggregate_context(context) yielded o
Normalized(o) ==
    IF o.exc.raised
    THEN /\ HandleFault(o.exc, "normalize")
         /\ UNCHANGED normalized_context
    ELSE /\ normalized_context' = o.val
         /\ pc' = IF 0 < max_iterations THEN "loop" ELSE "after"
         /\ UNCHANGED <<result, fault>>

\* normalized_context = self.aggregate_context(context); current_issue = issue
Normalize ==
    /\ pc = "normalize"
    /\ \E probe \in Probes :
          /\ available' = probe
          /\ Normalized(AggregateContext(context, probe))
    /\ attempt' = 0
    /\ UNCHANGED <<issue0, context0, requested, max_iterations, issue, context, dispatches, last>>
    /\ UNCHANGED beside_resolve

\* the body of the loop after self._dispatch(current_issue, normalized_context)
\* yielded o: break when resolved, else merge updated_request and go on
Dispatched(o) ==
    IF o.exc.raised
    THEN /\ HandleFault(o.exc, "dispatch")
         /\ UNCHANGED <<issue, attempt, last>>
    ELSE /\ result' = o.val
         /\ last' = o.val
         /\ fault' = fault
         /\ IF o.val.resolved
            THEN /\ pc' = "after"
                 /\ UNCHANGED <<issue, attempt>>
            ELSE /\ issue' = IF o.val.updated_request # <<>>
                             THEN PyDict(Update(issue.v, o.val.updated_request))
                             ELSE issue
                 /\ attempt' = attempt + 1
                 /\ pc' = IF attempt + 1 < max_iterations THEN "loop" ELSE "after"

\* one iteration of the loop: the resolver returns, or raises on its input
DispatchReturns ==
    /\ pc = "loop"
    /\ attempt < max_iterations
    /\ dispatches' = dispatches + 1
    /\ Dispatched(Dispatch(issue, normalized_context))
    /\ UNCHANGED <<issue0, context0, requested, max_iterations, context, normalized_context>>
    /\ UNCHANGED aux

\* one iteration of the loop: an unexpected fault is raised while the resolver runs
DispatchFaults ==
    /\ pc = "loop"
    /\ attempt < max_iterations
    /\ dispatches' = dispatches + 1
    /\ \E m \in UnexpectedFaults : HandleFault(Exc("RecursionError", m), "dispatch")
    /\ UNCHANGED <<issue0, context0, requested, max_iterations, issue, context, normalized_context,
                   attempt, last>>
    /\ UNCHANGED aux

\* an escalation that appends its action and keeps the resolver's resolution
EscalatedKeepsResolution(res) ==
    IF ~res.resolved
    THEN [res EXCEPT !.actions = Append(@, M_Escalated_to_human_review)]
    ELSE res

\* an escalation that does not test result.resolved
EscalatedAlways(res) ==
    [res EXCEPT !.resolution = M_Escalation_required,
                !.actions = Append(@, M_Escalated_to_human_review)]

\* if not result.resolved: overwrite the resolution, append the escalation action
Escalated(res) ==
    IF ~res.resolved
    THEN [res EXCEPT !.resolution = M_Escalation_required,
                     !.actions = Append(@, M_Escalated_to_human_review)]
    ELSE res

\* after the loop: escalate an unresolved result, return result
Finish ==
    /\ pc = "after"
    /\ result' = Escalated(result)
    /\ pc' = "returned"
    /\ UNCHANGED <<issue0, context0, requested, max_iterations, issue, context,
                   normalized_context, attempt, dispatches, last, fault>>
    /\ UNCHANGED aux

Next ==
    \/ Construct
    \/ Call
    \/ Validate
    \/ Normalize
    \/ DispatchReturns
    \/ DispatchFaults
    \/ Finish

Spec == Init /\ [][Next]_vars

(***************************************************************************)
(* Properties.                                                             *)
(***************************************************************************)
InCall == pc \notin {"new", "ready"}

Returned == pc = "returned"

IsReasoningResult(res) ==
    /\ DOMAIN res = {"resolved", "resolution", "updated_request", "actions"}
    /\ res.resolved \in BOOLEAN

EscalationCount(res) ==
    Cardinality({i \in 1..Len(res.actions) : res.actions[i] = M_Escalated_to_human_review})

\* C1: whatever the issue and the context are (mappings or not), a fault
\* raised by input validation, by context normalization or by a dispatch
\* attempt never leaves resolve: the call ends by returning a ReasoningResult
\* that reports the fault.
C1_FaultsNeverEscape ==
    /\ pc # "raised"
    /\ fault.at # "none" => /\ Returned
                            /\ IsReasoningResult(result)
                            /\ result.resolution = fault.msg

C1_Witness ==
    /\ Returned
    /\ fault.at = "normalize"
    /\ IsDict(issue0)

\* C2: when every dispatch attempt returned unresolved and no fault was
\* raised, the returned result is unresolved, its resolution is the escalation
\* message (which contains "Escalation"), its actions are the actions of the
\* final attempt followed by exactly one "Escalated to human review", and its
\* updated_request is the final attempt's.
C2_EscalatedResult ==
    (Returned /\ fault.at = "none" /\ ~last.resolved) =>
        /\ dispatches >= 1
        /\ result.resolved = FALSE
        /\ result.resolution = M_Escalation_required
        /\ Contains(M_Escalation, result.resolution)
        /\ result.actions = last.actions \o <<M_Escalated_to_human_review>>
        /\ EscalationCount(result) = 1
        /\ result.updated_request = last.updated_request

C2_Witness ==
    /\ Returned
    /\ fault.at = "none"
    /\ ~last.resolved
    /\ dispatches = MaxCap
    /\ Len(last.actions) = 2

\* C3: once a dispatch attempt returns a resolved result the loop is over (no
\* later dispatch in the call), and the call returns that result unchanged:
\* resolved, not the escalation message, no "Escalated to human review"
\* action.  No returned result is both resolved and escalated.
C3_ResolvedStops ==
    /\ last.resolved => /\ pc \in {"after", "returned"}
                        /\ dispatches = attempt + 1
    /\ (Returned /\ last.resolved) =>
          /\ result = last
          /\ result.resolved
          /\ result.resolution # M_Escalation_required
          /\ EscalationCount(result) = 0
    /\ Returned => ~(result.resolved /\ EscalationCount(result) > 0)

C3_Witness ==
    /\ Returned
    /\ result.resolved
    /\ dispatches = 1
    /\ max_iterations > 1

\* C4: when issue or context is not a mapping, normalization and the loop
\* never start (no dispatch at all), and the returned result is unresolved,
\* carries the validation fault's description as resolution, and has no
\* actions and no updated_request.
C4_MalformedInput ==
    (InCall /\ (~IsDict(issue0) \/ ~IsDict(context0))) =>
        /\ pc \in {"validate", "returned"}
        /\ dispatches = 0
        /\ normalized_context = PyNone
        /\ Returned =>
              /\ fault.at = "validate"
              /\ result = [resolved |-> FALSE,
                           resolution |-> IF ~IsDict(issue0) THEN M_issue_must_be_dict
                                          ELSE M_context_must_be_dict,
                           updated_request |-> <<>>,
                           actions |-> <<>>]

C4_Witness ==
    /\ Returned
    /\ IsDict(issue0)
    /\ ~IsDict(context0)
    /\ result.resolution = M_context_must_be_dict

\* C5: a fault raised while a resolver runs, at the first attempt or a later
\* one, ends the call at once (no further dispatch, no escalation) and the
\* returned result looks like that of an input-shape error: unresolved, the
\* fault's description as resolution, no actions left over from an earlier
\* attempt.
C5_ResolverFaultLikeInputError ==
    (Returned /\ fault.at = "dispatch") =>
        /\ dispatches = fault.attempt + 1
        /\ result.resolved = FALSE
        /\ result.resolution = fault.msg
        /\ EscalationCount(result) = 0
        /\ result.actions = <<>>

\* C6: the engine's cap is max(1, min(requested, 10)): within 1..10 and the
\* requested value when that is in range.  A call never dispatches more often
\* than the cap, and dispatches exactly cap times when no attempt resolves
\* and no fault is raised.
C6_IterationCap ==
    pc # "new" =>
        /\ max_iterations = (IF requested < 1 THEN 1
                             ELSE IF requested > 10 THEN 10 ELSE requested)
        /\ max_iterations \in 1..10
        /\ dispatches <= max_iterations
        /\ (Returned /\ fault.at = "none" /\ ~last.resolved) => dispatches = max_iterations

C6_Witness ==
    /\ Returned
    /\ requested = 50
    /\ dispatches = 10
    /\ fault.at = "none"

\* the text of the errors and the truth of the warnings of a ValidationFailure
\* issue whose ValidationResult is a mapping (absent: empty)
IsValidationIssue(x) ==
    /\ IsDict(x)
    /\ Get(x.v, K_Type, PyNone) = PyStr(T_ValidationFailure)
    /\ IsDict(Get(x.v, K_ValidationResult, PyDict(<<>>)))

ErrorsOf(x) == Get(Get(x.v, K_ValidationResult, PyDict(<<>>)).v, K_Errors, PyList(<<>>))

WarningsOf(x) == Get(Get(x.v, K_ValidationResult, PyDict(<<>>)).v, K_Warnings, PyNone)

WarningsOnly(x) ==
    /\ IsValidationIssue(x)
    /\ ErrorsOf(x) = PyList(<<>>)
    /\ WarningsOf(x).t = "list"
    /\ WarningsOf(x).v # <<>>

\* C7: a ValidationFailure issue with no errors (empty or absent) and at
\* least one warning is resolved by the first dispatch, whatever the context
\* and the cap: resolved, "Validation warnings acknowledged", no
\* updated_request, no actions.  (Calls in which normalization or the
\* resolver raised a fault are the subject of C1, C4 and C5.)
C7_WarningsAcknowledged ==
    (Returned /\ fault.at = "none" /\ WarningsOnly(issue0)) =>
        /\ dispatches = 1
        /\ result = [resolved |-> TRUE,
                     resolution |-> M_warnings_acknowledged,
                     updated_request |-> <<>>,
                     actions |-> <<>>]

C7_Witness ==
    /\ Returned
    /\ fault.at = "none"
    /\ WarningsOnly(issue0)
    /\ ~HasKey(Get(issue0.v, K_ValidationResult, PyDict(<<>>)).v, K_Errors)
    /\ max_iterations = MaxCap
    /\ HasKey(context0.v, K_KnownUsers)

\* a ValidationFailure issue with at least one error, all errors strs
HasErrors(x) ==
    /\ IsValidationIssue(x)
    /\ ErrorsOf(x).t = "list"
    /\ ErrorsOf(x).v # <<>>
    /\ \A i \in 1..Len(ErrorsOf(x).v) : ErrorsOf(x).v[i].t = "str"

\* the fuzzy match the resolver looks up for one error text: PyNone if none
MatchFor(e, ctx) ==
    IF Contains(S_user, Lower(e))
    THEN SuggestMatch(ExtractIdentifier(e), Get(ctx.v, K_KnownUsers, PyList(<<>>))).val
    ELSE IF Contains(S_mailbox, Lower(e))
    THEN SuggestMatch(ExtractIdentifier(e), Get(ctx.v, K_KnownMailboxes, PyList(<<>>))).val
    ELSE PyNone

Matched(errs, ctx) == {i \in 1..Len(errs) : MatchFor(errs[i].v, ctx) # PyNone}

\* the latest matched error with the identifier id
LatestWith(errs, ctx, id) ==
    SetMax({i \in Matched(errs, ctx) : ExtractIdentifier(errs[i].v) = id})

\* C8: for a ValidationFailure issue with at least one error the resolver's
\* result is resolved exactly when some error got a fuzzy match.  Then
\* updated_request is {Corrections: mapping}, the mapping holding one entry
\* identifier -> match per distinct matched identifier (the latest error with
\* an identifier decides its entry), and one action describes the mapping.
\* Otherwise the result is unresolved, updated_request is empty and the single
\* action lists the raw errors joined by "; ".
C8_ValidationCorrections ==
    (dispatches >= 1 /\ fault.at = "none" /\ HasErrors(issue0)) =>
        LET errs == ErrorsOf(issue0).v
            hit == Matched(errs, normalized_context)
            ids == {ExtractIdentifier(errs[i].v) : i \in hit}
        IN /\ last.resolved <=> hit # {}
           /\ hit # {} =>
                 /\ last.resolution = M_corrections_applied
                 /\ Len(last.updated_request) = 1
                 /\ last.updated_request[1][1] = K_Corrections
                 /\ LET corr == last.updated_request[1][2].v
                    IN /\ {corr[j][1] : j \in 1..Len(corr)} = ids
                       /\ Len(corr) = Cardinality(ids)
                       /\ \A j \in 1..Len(corr) :
                             corr[j][2] = MatchFor(
                                 errs[LatestWith(errs, normalized_context, corr[j][1])].v,
                                 normalized_context)
                       /\ last.actions = <<M_Applied_corrections \o ReprDict(corr)>>
           /\ hit = {} =>
                 /\ last.updated_request = <<>>
                 /\ last.actions =
                        <<M_Validation_errors
                          \o Join(<<";", " ">>, [i \in 1..Len(errs) |-> errs[i].v])>>

\* two errors share the identifier a_b; the later one, a mailbox error, decides
C8_Witness ==
    /\ Returned
    /\ fault.at = "none"
    /\ HasErrors(issue0)
    /\ Len(ErrorsOf(issue0).v) = 3
    /\ last.updated_request = <<<<K_Corrections, PyDict(<<<<<<"a", "_", "b">>, PyStr(B_ab)>>>>)>>>>

IsToolIssue(x) == IsDict(x) /\ Get(x.v, K_Type, PyNone) = PyStr(T_ToolError)

\* the lower-cased Error text the classifier reads
ErrorText(x) == Lower(Str(Get(x.v, K_Error, PyStr(<<>>))))

\* the policy table: cause, resolved, action
PolicyRow(msg) ==
    IF Contains(S_timeout, msg) THEN <<C_Timeout, TRUE, M_Retry>>
    ELSE IF Contains(S_network, msg) THEN <<C_NetworkError, TRUE, M_Check_network>>
    ELSE IF Contains(S_permission, msg) THEN <<C_PermissionDenied, FALSE, M_Verify_permissions>>
    ELSE IF Contains(S_rate, msg) /\ Contains(S_limit, msg) THEN <<C_RateLimit, FALSE, M_Wait>>
    ELSE <<S_None, FALSE, M_Escalate_operator>>

\* C9: the ToolError resolver's actions are the raw error text, the
\* classified cause and the advisor's action, in this order; Timeout and
\* NetworkError are resolved with "Automatic remediation suggested" by the
\* first dispatch, every other cause is unresolved and the call ends
\* escalated.  resolve returns resolved exactly when the lower-cased Error
\* text contains "timeout" or "network".
C9_ToolErrorPolicy ==
    (dispatches >= 1 /\ fault.at = "none" /\ IsToolIssue(issue0)) =>
        LET row == PolicyRow(ErrorText(issue0))
            auto == Contains(S_timeout, ErrorText(issue0)) \/ Contains(S_network, ErrorText(issue0))
        IN /\ last.actions = <<M_Error_prefix \o Str(Get(issue0.v, K_Error, PyNone)),
                               M_RootCause_prefix \o row[1],
                               row[3]>>
           /\ last.resolved = row[2]
           /\ last.resolved <=> auto
           /\ last.resolved => last.resolution = M_Automatic
           /\ Returned =>
                 /\ result.resolved <=> auto
                 /\ result.resolved => dispatches = 1 /\ result = last
                 /\ ~result.resolved => /\ dispatches = max_iterations
                                        /\ result.resolution = M_Escalation_required
                                        /\ EscalationCount(result) = 1

C9_Witness ==
    /\ Returned
    /\ fault.at = "none"
    /\ issue0 = ToolIssue(X_rate)
    /\ ~result.resolved
    /\ max_iterations = DefaultMaxIterations

IsLowConfidence(x) == IsDict(x) /\ Get(x.v, K_Type, PyNone) = PyStr(T_LowConfidence)

\* Metrics.LowerBound of a LowConfidence issue, PyNone when absent or null
LowerBoundOf(x) == Get(Get(x.v, K_Metrics, PyDict(<<>>)).v, K_LowerBound, PyNone)

\* C10: a LowConfidence issue is never resolved, whatever the context and
\* the cap.  Each dispatch yields "Low confidence detected at {Stage}" with
\* the LowerBound entry (when Metrics has one) followed by the reanalyze
\* action, so the call dispatches cap times and returns escalated.
C10_LowConfidenceNeverResolves ==
    (InCall /\ IsLowConfidence(issue0)) =>
        /\ ~result.resolved
        /\ ~last.resolved
        /\ (dispatches >= 1 /\ fault.at = "none") =>
              /\ last.resolution = M_Low_confidence \o Str(Get(issue0.v, K_Stage, PyStr(<<>>)))
              /\ last.actions = (IF LowerBoundOf(issue0) # PyNone
                                 THEN <<M_LowerBound_prefix \o Str(LowerBoundOf(issue0))>>
                                 ELSE <<>>) \o <<M_Reanalyzing>>
        /\ (Returned /\ fault.at = "none") =>
              /\ dispatches = max_iterations
              /\ result.resolution = M_Escalation_required
              /\ result.actions = last.actions \o <<M_Escalated_to_human_review>>

C10_Witness ==
    /\ Returned
    /\ fault.at = "none"
    /\ IsLowConfidence(issue0)
    /\ LowerBoundOf(issue0) = PyInt(2)
    /\ dispatches = MaxCap

(***************************************************************************)
(* The loop with a resolver that returns a partial correction: an          *)
(* unresolved result whose updated_request is not empty.  None of the      *)
(* three resolvers above returns one, so lines 176-177 of resolve only run *)
(* with a resolver added to, or overriding, _dispatch.                     *)
(***************************************************************************)
\* the updated_request values of such a resolver
PartialRequests ==
    { <<<<K_Corrections, PyDict(<<<<S_user, PyStr(U_bob)>>>>)>>>> }

\* one iteration of the loop: the resolver returns unresolved with a
\* non-empty updated_request, which resolve merges into current_issue
DispatchPartial ==
    /\ pc = "loop"
    /\ attempt < max_iterations
    /\ dispatches' = dispatches + 1
    /\ \E u \in PartialRequests :
          Dispatched(Ok([ReasoningResult EXCEPT !.updated_request = u]))
    /\ UNCHANGED <<issue0, context0, requested, max_iterations, context, normalized_context>>
    /\ UNCHANGED aux

NextWithPartial ==
    \/ Next
    \/ DispatchPartial

SpecWithPartial == Init /\ [][NextWithPartial]_vars

C11_InputsUnchangedWithShippedResolvers ==
    InCall => /\ issue = issue0
              /\ context = context0

(***************************************************************************)
(* Concurrent resolve calls on one engine.  Each call runs resolve in its  *)
(* own frame of locals (result, normalized_context, current_issue,         *)
(* attempt); the engine's fields are read, never written.  A step of a     *)
(* call is one statement of resolve: validation, normalization, one        *)
(* iteration of the loop, the escalation and return.                       *)
(***************************************************************************)
Callers == {1, 2}

\* a plausible bug: the locals kept on the engine, one frame for all calls
FrameShared(i) == 1

\* the frame a call's locals live in: its own
Frame(i) == i

\* result = ReasoningResult() at the start of resolve
NewFrame(iss, ctx) ==
    [pc |-> "validate", issue |-> iss, context |-> ctx, normalized_context |-> PyNone,
     attempt |-> 0, result |-> ReasoningResult]

\* the handler of resolve in a frame
FrameFault(f, exc) ==
    IF Caught(exc)
    THEN [f EXCEPT !.result.resolution = exc.msg, !.pc = "returned"]
    ELSE [f EXCEPT !.pc = "raised"]

FrameValidated(f, o) ==
    IF o.exc.raised THEN FrameFault(f, o.exc) ELSE [f EXCEPT !.pc = "normalize"]

FrameNormalized(f, o, cap) ==
    IF o.exc.raised THEN FrameFault(f, o.exc)
    ELSE [f EXCEPT !.normalized_context = o.val,
                   !.attempt = 0,
                   !.pc = IF 0 < cap THEN "loop" ELSE "after"]

FrameDispatched(f, o, cap) ==
    IF o.exc.raised THEN FrameFault(f, o.exc)
    ELSE IF o.val.resolved THEN [f EXCEPT !.result = o.val, !.pc = "after"]
    ELSE [f EXCEPT !.result = o.val,
                   !.issue = IF o.val.updated_request # <<>>
                             THEN PyDict(Update(f.issue.v, o.val.updated_request))
                             ELSE f.issue,
                   !.attempt = f.attempt + 1,
                   !.pc = IF f.attempt + 1 < cap THEN "loop" ELSE "after"]

FrameFinished(f) == [f EXCEPT !.result = Escalated(f.result), !.pc = "returned"]

\* the next statement of resolve in frame f
FrameStep(f, cap, probe) ==
    CASE f.pc = "validate" -> FrameValidated(f, ValidateInputs(f.issue, f.context))
      [] f.pc = "normalize" -> FrameNormalized(f, AggregateContext(f.context, probe), cap)
      [] f.pc = "loop" -> FrameDispatched(f, Dispatch(f.issue, f.normalized_context), cap)
      [] f.pc = "after" -> FrameFinished(f)
      [] OTHER -> f

FrameDone(f) == f.pc \in {"returned", "raised"}

RECURSIVE RunAlone(_, _, _)
\* resolve run from frame f to its end with no other call around
RunAlone(f, cap, probe) ==
    IF FrameDone(f) THEN f.result ELSE RunAlone(FrameStep(f, cap, probe), cap, probe)

\* the calls made concurrently: issue, context, probe
ConcurrentInputs ==
    { <<Issues[5], Contexts[3], [cwd |-> TRUE, user |-> TRUE, uname |-> TRUE]>>,
      <<Issues[7], Contexts[3], [cwd |-> TRUE, user |-> FALSE, uname |-> TRUE]>>,
      <<Issues[18], Contexts[2], [cwd |-> TRUE, user |-> TRUE, uname |-> TRUE]>>,
      <<Issues[21], Contexts[2], [cwd |-> TRUE, user |-> TRUE, uname |-> FALSE]>>,
      <<Issues[14], Contexts[4], [cwd |-> TRUE, user |-> TRUE, uname |-> TRUE]>> }

\* call i is between its first statement and its return
Running(i) == i \in DOMAIN given /\ Frame(i) \in DOMAIN frames /\ ~FrameDone(frames[Frame(i)])

\* call i has begun and another call is past its first statement and not done
Overlaps(i) ==
    \E j \in Callers \ {i} : Running(j) /\ frames[Frame(j)].pc # "validate"

\* engine.resolve(issue, context) is called by caller i
Begin(i) ==
    /\ pc = "ready"
    /\ i \notin DOMAIN given
    /\ \E inp \in ConcurrentInputs :
          /\ given' = (i :> [issue |-> inp[1], context |-> inp[2], probe |-> inp[3],
                             alone |-> RunAlone(NewFrame(inp[1], inp[2]),
                                                max_iterations, inp[3]),
                             overlapped |-> FALSE]) @@ given
          /\ frames' = (Frame(i) :> NewFrame(inp[1], inp[2])) @@ frames
    /\ UNCHANGED beside_concurrent

\* call i executes its next statement
Step(i) ==
    /\ Running(i)
    /\ frames' = [frames EXCEPT
                     ![Frame(i)] = FrameStep(@, max_iterations, given[i].probe)]
    /\ given' = [given EXCEPT ![i].overlapped = @ \/ Overlaps(i)]
    /\ UNCHANGED beside_concurrent

NextConcurrent ==
    \/ Construct
    \/ \E i \in Callers : Begin(i)
    \/ \E i \in Callers : Step(i)

SpecConcurrent == Init /\ [][NextConcurrent]_vars

\* C12: under every interleaving of the statements of two resolve calls on
\* one engine, each with its own issue and context, a call that has returned
\* returned the result (resolved, resolution, updated_request, actions) it
\* returns when run alone, and the engine's max_iterations stays the value
\* set at construction.
C12_ConcurrentCallsIndependent ==
    /\ pc # "new" => max_iterations = ClampIterations(requested)
    /\ \A i \in DOMAIN given :
          /\ Frame(i) \in DOMAIN frames
          /\ frames[Frame(i)].pc # "raised"
          /\ frames[Frame(i)].pc = "returned" => frames[Frame(i)].result = given[i].alone

\* both calls returned, each took statements while the other was under way,
\* one resolved and one escalated
C12_Witness ==
    /\ DOMAIN given = Callers
    /\ \A i \in Callers : frames[Frame(i)].pc = "returned" /\ given[i].overlapped
    /\ frames[Frame(1)].result.resolved
    /\ ~frames[Frame(2)].result.resolved
    /\ frames[Frame(2)].result.resolution = M_Escalation_required

(***************************************************************************)
(* aggregate_context on its own: applied to a context, then to its own     *)
(* output.                                                                 *)
(***************************************************************************)
NormalizeKeys == <<K_KnownUsers, K_History, K_Note, K_environment>>

NormalizeValues ==
    << PyNone,
       PyStr(U_amy),
       StrList(<<U_bob, U_ab, U_bob, U_amy, U_ab>>),
       StrList(<<U_bob, U_ab>>),
       PyList(<<>>),
       NumberList(MaxListLen, ListCap + 3),
       NumberList(ListCap, ListCap + 1),
       NumberList(ListCap + 1, ListCap + 2),
       PyDict(<<>>),
       PyDict(<<<<K_Note, PyNone>>>>),
       PyList(<<PyInt(1), PyDict(<<>>)>>) >>

NormalizeItems ==
    {<<NormalizeKeys[k], NormalizeValues[v]>> :
        k \in 1..Len(NormalizeKeys), v \in 1..Len(NormalizeValues)}

\* contexts of up to two keys
NormalizeInputs ==
    {<<>>} \cup {<<p>> : p \in NormalizeItems}
           \cup {<<pq[1], pq[2]>> :
                    pq \in {x \in NormalizeItems \X NormalizeItems : x[1][1] # x[2][1]}}

NormalizeProbes ==
    { [cwd |-> TRUE, user |-> TRUE, uname |-> TRUE],
      [cwd |-> TRUE, user |-> FALSE, uname |-> FALSE],
      [cwd |-> FALSE, user |-> TRUE, uname |-> TRUE] }

\* a context is handed to the engine
Give ==
    /\ norm_pc = "idle"
    /\ \E c \in NormalizeInputs : raw' = PyDict(c)
    /\ norm_pc' = "given"
    /\ UNCHANGED <<once, twice>>
    /\ UNCHANGED beside_normalize

\* once = aggregate_context(raw)
AggregateOnce ==
    /\ norm_pc = "given"
    /\ \E probe \in NormalizeProbes : once' = AggregateContext(raw, probe)
    /\ norm_pc' = IF once'.exc.raised THEN "failed" ELSE "once"
    /\ UNCHANGED <<raw, twice>>
    /\ UNCHANGED beside_normalize

\* twice = aggregate_context(once)
AggregateTwice ==
    /\ norm_pc = "once"
    /\ \E probe \in NormalizeProbes : twice' = AggregateContext(once.val, probe)
    /\ norm_pc' = IF twice'.exc.raised THEN "failed" ELSE "twice"
    /\ UNCHANGED <<raw, once>>
    /\ UNCHANGED beside_normalize

NextNormalize ==
    \/ Give
    \/ AggregateOnce
    \/ AggregateTwice

SpecNormalize == Init /\ [][NextNormalize]_vars

\* the keys of a dict other than "environment", as a set
OwnKeys(d) == {d.v[i][1] : i \in 1..Len(d.v)} \ {K_environment}

\* two dicts agree on every key other than "environment"
SameOwnEntries(d, e) ==
    /\ OwnKeys(d) = OwnKeys(e)
    /\ \A k \in OwnKeys(d) : Get(d.v, k, PyNone) = Get(e.v, k, PyNone)

NoDuplicates(xs) == \A i, j \in 1..Len(xs) : xs[i] = xs[j] => i = j

\* no null values, no duplicate list entries, at most ListCap items per list,
\* no empty mappings
AlreadyNormalized(d) ==
    \A i \in 1..Len(d.v) :
        /\ d.v[i][2] # PyNone
        /\ d.v[i][2] # PyDict(<<>>)
        /\ d.v[i][2].t = "list" =>
              /\ NoDuplicates(d.v[i][2].v)
              /\ Len(d.v[i][2].v) <= ListCap

\* C13: aggregate_context applied to its own output gives the same mapping
\* on every key other than "environment"; a context that is already
\* normalized comes back unchanged on those keys.
C13_NormalizationIdempotent ==
    /\ norm_pc = "twice" => SameOwnEntries(twice.val, once.val)
    /\ (norm_pc \in {"once", "twice"} /\ AlreadyNormalized(raw)) =>
          SameOwnEntries(once.val, raw)

\* the first pass changed the context (duplicates and a list over the cap),
\* the second changed nothing
C13_Witness ==
    /\ norm_pc = "twice"
    /\ ~SameOwnEntries(once.val, raw)
    /\ Get(raw.v, K_History, PyNone) = NumberList(MaxListLen, ListCap + 3)
    /\ Len(Get(once.val.v, K_History, PyNone).v) = ListCap
    /\ Get(raw.v, K_KnownUsers, PyNone) = StrList(<<U_bob, U_ab, U_bob, U_amy, U_ab>>)

(***************************************************************************)
(* Properties of the normalized context inside resolve.                    *)
(***************************************************************************)
\* the positions of xs holding the first occurrence of their entry
FirstSeen(xs) == {i \in 1..Len(xs) : \A j \in 1..(i - 1) : xs[j] # xs[i]}

\* out, whose entries first occur in xs at the positions pos, holds the
\* latest ListCap first occurrences of xs (at the positions first), in order
RecentUniqueAt(out, first, pos) ==
    /\ Len(out) = Min(Cardinality(first), ListCap)
    /\ \A m \in 1..(Len(out) - 1) : pos[m] < pos[m + 1]
    /\ {pos[m] : m \in 1..Len(out)} =
          {i \in first : Cardinality({j \in first : j >= i}) <= ListCap}

\* every entry of out occurs in xs
AllFrom(out, xs) == \A m \in 1..Len(out) : \E i \in 1..Len(xs) : xs[i] = out[m]

\* out is the last ListCap first occurrences of xs, in the order of xs
IsRecentUnique(out, xs) ==
    /\ AllFrom(out, xs)
    /\ RecentUniqueAt(out, FirstSeen(xs), [m \in 1..Len(out) |-> IndexOf(xs, out[m])])

\* n is the normalization of the context c, whatever the probe returned
IsNormalizationOf(n, c) ==
    /\ \A i \in 1..Len(n.v) : n.v[i][2] # PyNone
    /\ \A i \in 1..Len(n.v) : n.v[i][1] # K_environment => n.v[i][2] # PyDict(<<>>)
    /\ OwnKeys(n) \subseteq OwnKeys(c)
    /\ \A k \in OwnKeys(c) :
          IF Get(c.v, k, PyNone) \in {PyNone, PyDict(<<>>)}
          THEN ~HasKey(n.v, k)
          ELSE /\ HasKey(n.v, k)
               /\ IF Get(c.v, k, PyNone).t = "list"
                  THEN /\ Get(n.v, k, PyNone).t = "list"
                       /\ IsRecentUnique(Get(n.v, k, PyNone).v, Get(c.v, k, PyNone).v)
                  ELSE Get(n.v, k, PyNone) = Get(c.v, k, PyNone)
    /\ HasKey(n.v, K_environment)
    /\ \E probe \in Probes :
          CollectEnvironmentContext(probe) = Ok(Get(n.v, K_environment, PyNone))

\* the call got past normalization
PastNormalization ==
    \/ pc \in {"loop", "after"}
    \/ Returned /\ fault.at \in {"none", "dispatch"}

\* the state right after normalization, and no dispatch without it
NormalizedProperly ==
    /\ (pc \in {"loop", "after"} /\ dispatches = 0) =>
          IsNormalizationOf(normalized_context, context0)
    /\ dispatches >= 1 => PastNormalization

\* normalized_context is assigned by the one step from "normalize", before
\* any dispatch, and that step is not taken again in the call; the caller's
\* context is what it was at the call
NormalizedOnce ==
    /\ normalized_context' # normalized_context =>
          /\ pc = "normalize"
          /\ dispatches = 0
          /\ pc' \in {"loop", "after"}
    /\ pc \notin {"new", "ready"} => context0' = context0
    /\ pc' = "normalize" => pc = "validate"
    /\ pc = "normalize" => pc' \in {"loop", "after", "returned"}

\* C14: resolve normalizes the context exactly once, before the first
\* dispatch, whatever the number of attempts.  The normalized context has no
\* null value and no empty mapping besides "environment"; every list is the
\* last 50 first occurrences of the caller's list, in order and free of
\* duplicates; every other value is the caller's; "environment" is present
\* and holds the probe's result, also when the caller supplied one.
C14_NormalizedOncePerCall == []NormalizedProperly /\ [][NormalizedOnce]_vars

\* the caller supplied its own environment and a list over the cap, and the
\* loop ran more than once
C14_Witness ==
    /\ Returned
    /\ fault.at = "none"
    /\ dispatches = MaxCap
    /\ Get(context0.v, K_environment, PyNone) = PyStr(U_amy)
    /\ Get(normalized_context.v, K_environment, PyNone).t = "dict"
    /\ Len(Get(context0.v, K_History, PyNone).v) = MaxListLen
    /\ Len(Get(normalized_context.v, K_History, PyNone).v) = ListCap

(***************************************************************************)
(* The environment probe inside resolve.                                   *)
(***************************************************************************)
\* the context is a mapping whose lists hold hashable items only
Normalizable(c) ==
    /\ IsDict(c)
    /\ \A i \in 1..Len(c.v) :
          c.v[i][2].t = "list" => \A j \in 1..Len(c.v[i][2].v) : ~Unhashable(c.v[i][2].v[j])

\* the environment entry holds exactly the fields that could be gathered
\* ("user" falls back to "unknown" and so is always there)
HoldsAvailableFields(env) ==
    /\ env.t = "dict"
    /\ HasKey(env.v, K_cwd) <=> available.cwd
    /\ HasKey(env.v, K_user)
    /\ HasKey(env.v, K_hostname) <=> available.uname

\* C15: whichever of cwd, user and hostname cannot be gathered, the probe
\* raises no fault and returns the fields that are available, so that
\* normalization succeeds and resolve goes on to dispatch.
C15_ProbeTolerant ==
    (InCall /\ IsDict(issue0) /\ Normalizable(context0)) =>
        /\ fault.at # "normalize"
        /\ PastNormalization =>
              HoldsAvailableFields(Get(normalized_context.v, K_environment, PyNone))
        /\ Returned => dispatches >= 1

(***************************************************************************)
(* The candidate lists the ValidationFailure resolver consults.            *)
(***************************************************************************)
\* the match of the identifier of error text e among the list under key
MatchAmong(e, ctx, key) ==
    SuggestMatch(ExtractIdentifier(e), Get(ctx.v, key, PyList(<<>>))).val

\* the successful matches the errors with identifier id call for
MatchesCalledFor(errs, ctx, id) ==
    {MatchAmong(errs[i].v, ctx, K_KnownUsers) :
        i \in {j \in 1..Len(errs) : /\ ExtractIdentifier(errs[j].v) = id
                                    /\ Contains(S_user, Lower(errs[j].v))}}
    \cup
    {MatchAmong(errs[i].v, ctx, K_KnownMailboxes) :
        i \in {j \in 1..Len(errs) : /\ ExtractIdentifier(errs[j].v) = id
                                    /\ Contains(S_mailbox, Lower(errs[j].v))}}

\* the corrections of res hold a match for identifier id
Recorded(res, errs, ctx, id) ==
    /\ res.resolved
    /\ Get(Get(res.updated_request, K_Corrections, PyDict(<<>>)).v, id, PyNone)
          \in (MatchesCalledFor(errs, ctx, id) \ {PyNone})

\* C16: every error that mentions "user" is matched against KnownUsers and
\* every error that mentions "mailbox" against KnownMailboxes, an error that
\* mentions both included, and each successful match is recorded in the
\* corrections under the error's identifier.
C16_BothListsConsulted ==
    (dispatches >= 1 /\ fault.at = "none" /\ HasErrors(issue0)) =>
        \A i \in 1..Len(ErrorsOf(issue0).v) :
            MatchesCalledFor(ErrorsOf(issue0).v, normalized_context,
                             ExtractIdentifier(ErrorsOf(issue0).v[i].v)) # {PyNone}
            => \/ MatchesCalledFor(ErrorsOf(issue0).v, normalized_context,
                                   ExtractIdentifier(ErrorsOf(issue0).v[i].v)) = {}
               \/ Recorded(last, ErrorsOf(issue0).v, normalized_context,
                           ExtractIdentifier(ErrorsOf(issue0).v[i].v))

(***************************************************************************)
(* Root-cause classification on its own: _root_cause_analysis and          *)
(* _suggest_next_steps applied to tool errors whose text is built from     *)
(* the rule keywords.                                                      *)
(***************************************************************************)
\* the most words in one error text
MaxWords == 3

W_Timeout ==
    <<"T", "I", "M", "E", "O", "U", "T">>

\* the words error texts are built from: the rule keywords, one of them in
\* capitals, and a word no rule knows
ErrorWords == {S_timeout, S_network, S_permission, S_rate, S_limit, W_Timeout, X_boom}

ErrorTexts ==
    UNION { { Join(<<" ">>, ws) : ws \in [1..n -> ErrorWords] } : n \in 0..MaxWords }

\* tool errors with a text, with an Error that is not a string, and without
\* an Error entry
Reports ==
    { ToolIssue(msg) : msg \in ErrorTexts }
    \cup { PyDict(<<<<K_Type, PyStr(T_ToolError)>>, <<K_Error, PyNone>>>>),
           PyDict(<<<<K_Type, PyStr(T_ToolError)>>, <<K_Error, PyInt(3)>>>>),
           PyDict(<<<<K_Type, PyStr(T_ToolError)>>>>) }

\* a tool error arrives
Receive ==
    /\ tool_pc = "idle"
    /\ \E r \in Reports : report' = r
    /\ tool_pc' = "reported"
    /\ UNCHANGED <<cause, advice>>
    /\ UNCHANGED beside_classify

\* cause = self._root_cause_analysis(issue)
Analyze ==
    /\ tool_pc = "reported"
    /\ cause' = RootCauseAnalysis(report)
    /\ tool_pc' = "analyzed"
    /\ UNCHANGED <<report, advice>>
    /\ UNCHANGED beside_classify

\* steps = self._suggest_next_steps(cause)
Advise ==
    /\ tool_pc = "analyzed"
    /\ advice' = SuggestNextSteps(cause)
    /\ tool_pc' = "advised"
    /\ UNCHANGED <<report, cause>>
    /\ UNCHANGED beside_classify

NextClassify ==
    \/ Receive
    \/ Analyze
    \/ Advise

SpecClassify == Init /\ [][NextClassify]_vars

\* the rules in priority order: the keywords a rule needs, and its class
RulePriority ==
    << <<{S_timeout}, C_Timeout>>,
       <<{S_network}, C_NetworkError>>,
       <<{S_permission}, C_PermissionDenied>>,
       <<{S_rate, S_limit}, C_RateLimit>> >>

\* the lower-cased Error text of a report, empty when there is no Error
ReportText(r) == IF HasKey(r.v, K_Error) THEN Lower(Str(Get(r.v, K_Error, PyNone))) ELSE <<>>

RuleMatches(k, msg) == \A w \in RulePriority[k][1] : Contains(w, msg)

MatchingRules(msg) == {k \in 1..Len(RulePriority) : RuleMatches(k, msg)}

\* the class of the highest-priority matching rule, None when none matches
HighestPriority(rules) ==
    IF rules = {} THEN PyNone ELSE PyStr(RulePriority[SetMin(rules)][2])

\* C17: the root cause of a tool error is a function of its lower-cased
\* Error text alone: the class of the first rule, in the order timeout,
\* network, permission, rate-and-limit, whose keywords the text contains,
\* and no class when no rule matches or the Error is missing; a tool error
\* without a class gets resolved = false and "Escalate to human operator".
C17_FirstMatchingRuleWins ==
    /\ tool_pc \in {"analyzed", "advised"} =>
           cause = HighestPriority(MatchingRules(ReportText(report)))
    /\ tool_pc = "advised" /\ cause = PyNone =>
           advice = <<FALSE, <<M_Escalate_operator>>>>

\* a text naming both "permission" and "timeout" was classified as a timeout
C17_Witness ==
    /\ tool_pc = "advised"
    /\ Cardinality(MatchingRules(ReportText(report))) >= 2
    /\ Contains(S_permission, ReportText(report))
    /\ cause = PyStr(C_Timeout)
    /\ advice[1] = TRUE

\* a tool error without an Error entry ended in the escalation row
C17_WitnessMissingError ==
    /\ tool_pc = "advised"
    /\ ~HasKey(report.v, K_Error)
    /\ cause = PyNone
    /\ advice = <<FALSE, <<M_Escalate_operator>>>>

(***************************************************************************)
(* _suggest_match on its own: values and candidate lists with upper-case   *)
(* letters, shared local parts and repeated entries.                       *)
(***************************************************************************)
\* the most candidates in one list
MaxCandidates == 2

Q_bob_smiht ==
    <<"b", "o", "b", ".", "s", "m", "i", "h", "t">>
Q_a_b ==
    <<"a", "_", "b">>
Q_zzz ==
    <<"z", "z", "z">>
Q_AMY ==
    <<"A", "M", "Y">>
U_ab_y ==
    <<"a", "_", "b", "@", "y", ".", "g", "o", "v">>
U_Amy ==
    <<"A", "m", "y", "@", "x", ".", "g", "o", "v">>

SuggestValues == {<<>>, Q_bob_smiht, Q_a_b, Q_zzz, U_amy, Q_AMY, B_ab}

CandidatePool == {U_bob, U_ab, U_ab_y, U_amy, B_ab, U_Amy}

CandidateLists == UNION { [1..n -> CandidatePool] : n \in 0..MaxCandidates }

\* a caller passes a value and a list of candidates
Ask ==
    /\ suggest_pc = "idle"
    /\ \E v \in SuggestValues, cs \in CandidateLists :
           /\ value' = v
           /\ candidates' = cs
    /\ suggest_pc' = "asked"
    /\ UNCHANGED suggestion
    /\ UNCHANGED beside_suggest

\* return self._suggest_match(value, candidates)
Suggest ==
    /\ suggest_pc = "asked"
    /\ suggestion' = SuggestMatch(value, StrList(candidates)).val
    /\ suggest_pc' = "answered"
    /\ UNCHANGED <<value, candidates>>
    /\ UNCHANGED beside_suggest

NextSuggest ==
    \/ Ask
    \/ Suggest

SpecSuggest == Init /\ [][NextSuggest]_vars

\* similarity of at least 0.7 between the lower-cased value and a text
Similar(x, word) == RatioAtLeastCutoff(x, word, MatchCount(x, word))

\* some candidate, whole or by its local part, is similar to the value
SomeSimilar(v, cs) ==
    \E i \in 1..Len(cs) :
        \/ Similar(Lower(cs[i]), Lower(v))
        \/ Similar(LocalPart(Lower(cs[i])), Lower(v))

\* C18: _suggest_match gives none for an empty value or no candidates; a
\* result that is not none is one of the supplied candidates as given; and
\* the result is none when no candidate, whole or by local part, reaches
\* similarity 0.7.
C18_SuggestionIsCandidate ==
    suggest_pc = "answered" =>
        /\ (value = <<>> \/ candidates = <<>>) => suggestion = PyNone
        /\ suggestion # PyNone =>
               \E i \in 1..Len(candidates) : suggestion = PyStr(candidates[i])
        /\ ~SomeSimilar(value, candidates) => suggestion = PyNone

\* what the code does keep: the result is some candidate in lower case, the
\* first one with the matched local part when the hit was on a local part
C18_SuggestionIsLoweredCandidate ==
    suggest_pc = "answered" =>
        /\ (value = <<>> \/ candidates = <<>>) => suggestion = PyNone
        /\ suggestion # PyNone =>
               \E i \in 1..Len(candidates) : suggestion = PyStr(Lower(candidates[i]))
        /\ suggestion = PyNone <=>
               (value = <<>> \/ candidates = <<>> \/ ~SomeSimilar(value, candidates))

\* a candidate with upper-case letters was matched
C18_UpperCaseMatched ==
    /\ suggest_pc = "answered"
    /\ suggestion # PyNone
    /\ \A i \in 1..Len(candidates) : suggestion # PyStr(candidates[i])

(***************************************************************************)
(* _extract_identifier on its own: texts put together from pieces of       *)
(* email addresses, tokens and separators.                                 *)
(***************************************************************************)
\* the most pieces in one text
MaxPieces == 4

TextPieces ==
    { <<"B", "o">>, <<"@", "x", ".">>, <<"g", "o", "v">>, <<"a", "_", "b", " ">>,
      <<"1">>, <<".">>, <<"%">> }

Texts == UNION { { Concat(ps) : ps \in [1..n -> TextPieces] } : n \in 0..MaxPieces }

\* a caller passes a text
Pass ==
    /\ extract_pc = "idle"
    /\ \E t \in Texts : text' = t
    /\ extract_pc' = "passed"
    /\ UNCHANGED identifier
    /\ UNCHANGED beside_extract

\* return self._extract_identifier(text)
Extract ==
    /\ extract_pc = "passed"
    /\ identifier' = ExtractIdentifier(text)
    /\ extract_pc' = "extracted"
    /\ UNCHANGED text
    /\ UNCHANGED beside_extract

NextExtract ==
    \/ Pass
    \/ Extract

SpecExtract == Init /\ [][NextExtract]_vars

AllIn(t, i, j, InClass(_)) == \A p \in i..j : InClass(t[p])

\* t[i..j] has the shape of an email address standing between word
\* boundaries: local part, "@" at a, domain part, "." at d, two or more letters
EmailShaped(t, i, j) ==
    /\ Boundary(t, i)
    /\ Boundary(t, j + 1)
    /\ \E a \in (i + 1)..(j - 4) :
           /\ t[a] = "@"
           /\ AllIn(t, i, a - 1, IsLocalChar)
           /\ \E d \in (a + 2)..(j - 2) :
                  /\ t[d] = "."
                  /\ AllIn(t, a + 1, d - 1, IsDomainChar)
                  /\ AllIn(t, d + 1, j, IsAlpha)

EmailSpans(t) == {s \in (1..Len(t)) \X (1..Len(t)) : EmailShaped(t, s[1], s[2])}

\* t[i..j] is a maximal run of letters, digits, ".", "_" and "-"
IsTokenSpan(t, i, j) ==
    /\ i <= j
    /\ AllIn(t, i, j, IsTokenChar)
    /\ (i > 1 => ~IsTokenChar(t[i - 1]))
    /\ (j < Len(t) => ~IsTokenChar(t[j + 1]))

TokenSpans(t) == {s \in (1..Len(t)) \X (1..Len(t)) : IsTokenSpan(t, s[1], s[2])}

\* length >= 3, not purely numeric, a "." or "_", and a letter
Qualifies(tok) ==
    /\ Len(tok) >= 3
    /\ \E p \in 1..Len(tok) : tok[p] \notin {"0", "1", "2", "3", "4", "5", "6", "7", "8", "9"}
    /\ \E p \in 1..Len(tok) : tok[p] \in {".", "_"}
    /\ \E p \in 1..Len(tok) : IsAlpha(tok[p])

QualifyingSpans(t, spans) == {s \in spans : Qualifies(SubSeq(t, s[1], s[2]))}

\* the span that starts first; of those the one that ends last
FirstSpan(spans) ==
    CHOOSE s \in spans : \A o \in spans : s[1] < o[1] \/ (s[1] = o[1] /\ s[2] >= o[2])

LastSpan(spans) == CHOOSE s \in spans : \A o \in spans : s[1] >= o[1]

Cut(t, s) == SubSeq(t, s[1], s[2])

\* the identifier by the priority email, first qualifying token, last token,
\* whole text
ByPriority(t, emails, tokens, qualifying) ==
    IF emails # {} THEN Cut(t, FirstSpan(emails))
    ELSE IF qualifying # {} THEN Cut(t, FirstSpan(qualifying))
    ELSE IF tokens # {} THEN Cut(t, LastSpan(tokens))
    ELSE t

Prioritized(t, tokens) == ByPriority(t, EmailSpans(t), tokens, QualifyingSpans(t, tokens))

\* C19: _extract_identifier returns a string chosen by strict priority: the
\* first email-shaped part of the text, verbatim; else the first token that
\* has length >= 3, is not purely numeric, has a "." or "_" and a letter;
\* else the last token; else, without any token, the text itself.
C19_IdentifierByPriority ==
    extract_pc = "extracted" =>
        /\ identifier \in Seq(Range(text))
        /\ identifier = Prioritized(text, TokenSpans(text))

\* an email address was preferred to a qualifying token that stands before it
C19_Witness ==
    /\ extract_pc = "extracted"
    /\ EmailSpans(text) # {}
    /\ \E s \in QualifyingSpans(text, TokenSpans(text)) : s[2] < FirstSpan(EmailSpans(text))[1]
    /\ identifier = <<"B", "o", "@", "x", ".", "g", "o", "v">>

\* no email and no qualifying token: the last of several tokens was returned
C19_WitnessLastToken ==
    /\ extract_pc = "extracted"
    /\ Cardinality(TokenSpans(text)) >= 2
    /\ QualifyingSpans(text, TokenSpans(text)) = {}
    /\ identifier = Cut(text, LastSpan(TokenSpans(text)))

\* a text without any token was returned whole
C19_WitnessNoToken ==
    /\ extract_pc = "extracted"
    /\ text # <<>>
    /\ TokenSpans(text) = {}
    /\ identifier = text

(***************************************************************************)
(* MCPBridge.send: several send calls share the server's stdin and stdout. *)
(* The server answers every request with one response line, in the order   *)
(* it reads them.                                                          *)
(***************************************************************************)
\* the most lines that are not JSON (log output) the server writes
MaxNoise == 1

\* a response line: {"id": id, "result": ...} or {"id": id, "error": ...}
Response(id, failed) == [json |-> TRUE, id |-> id, error |-> failed]

\* a line json.loads rejects
Noise == [json |-> FALSE, id |-> 0, error |-> FALSE]

\* readline() at end of file
EndOfFile == [json |-> FALSE, id |-> -1, error |-> FALSE]

\* request_id = str(uuid.uuid4()); write the request line and flush
Send(i) ==
    /\ send_pc[i] = "idle"
    /\ alive
    /\ request_id' = [request_id EXCEPT ![i] = i]
    /\ stdin' = Append(stdin, i)
    /\ send_pc' = [send_pc EXCEPT ![i] = "reading"]
    /\ UNCHANGED <<stdout, alive, line, outcome, discarded, logged>>
    /\ UNCHANGED beside_bridge

\* line = await ... run_in_executor(None, self.proc.stdout.readline)
ReadLine(i) ==
    /\ send_pc[i] = "reading"
    /\ \/ /\ stdout # <<>>
          /\ line' = [line EXCEPT ![i] = <<Head(stdout)>>]
          /\ stdout' = Tail(stdout)
       \/ /\ stdout = <<>>
          /\ ~alive
          /\ line' = [line EXCEPT ![i] = <<EndOfFile>>]
          /\ UNCHANGED stdout
    /\ send_pc' = [send_pc EXCEPT ![i] = "handling"]
    /\ UNCHANGED <<request_id, stdin, alive, outcome, discarded, logged>>
    /\ UNCHANGED beside_bridge

\* the body of the while loop after readline returned l
Handled(i, l) ==
    IF l = EndOfFile
    THEN /\ send_pc' = [send_pc EXCEPT ![i] = "raised"]
         /\ outcome' = [outcome EXCEPT ![i] = [kind |-> "terminated", id |-> 0]]
         /\ UNCHANGED discarded
    ELSE IF l.json /\ l.id = request_id[i]
    THEN /\ send_pc' = [send_pc EXCEPT ![i] = IF l.error THEN "raised" ELSE "returned"]
         /\ outcome' = [outcome EXCEPT ![i] =
                            [kind |-> IF l.error THEN "error" ELSE "result", id |-> l.id]]
         /\ UNCHANGED discarded
    ELSE /\ send_pc' = [send_pc EXCEPT ![i] = "reading"]
         /\ discarded' = discarded \cup {[by |-> i, line |-> l]}
         /\ UNCHANGED outcome

Handle(i) ==
    /\ send_pc[i] = "handling"
    /\ Handled(i, line[i][1])
    /\ line' = [line EXCEPT ![i] = <<>>]
    /\ UNCHANGED <<request_id, stdin, stdout, alive, logged>>
    /\ UNCHANGED beside_bridge

\* the server reads the next request and writes its one response line
Serve ==
    /\ alive
    /\ stdin # <<>>
    /\ \E failed \in BOOLEAN : stdout' = Append(stdout, Response(Head(stdin), failed))
    /\ stdin' = Tail(stdin)
    /\ UNCHANGED <<send_pc, request_id, alive, line, outcome, discarded, logged>>
    /\ UNCHANGED beside_bridge

\* the server writes a line that is not JSON
Log ==
    /\ alive
    /\ logged < MaxNoise
    /\ stdout' = Append(stdout, Noise)
    /\ logged' = logged + 1
    /\ UNCHANGED <<send_pc, request_id, stdin, alive, line, outcome, discarded>>
    /\ UNCHANGED beside_bridge

\* the server process ends after it has answered every request it was sent
Terminate ==
    /\ alive
    /\ stdin = <<>>
    /\ alive' = FALSE
    /\ UNCHANGED <<send_pc, request_id, stdin, stdout, line, outcome, discarded, logged>>
    /\ UNCHANGED beside_bridge

NextBridge ==
    \/ \E i \in Senders : Send(i)
    \/ \E i \in Senders : ReadLine(i)
    \/ \E i \in Senders : Handle(i)
    \/ Serve
    \/ Log
    \/ Terminate

SpecBridge == Init /\ [][NextBridge]_vars

\* C20: with one response line per request, a send call ends only with the
\* response that carries its own request id, and no response line is read
\* and dropped by a send call it was not addressed to (so that every pending
\* send can still get its response).
C20_ResponsesReachTheirSender ==
    /\ \A i \in Senders :
           send_pc[i] \in {"returned", "raised"} /\ outcome[i].kind # "terminated" =>
               outcome[i].id = request_id[i]
    /\ \A d \in discarded : ~d.line.json

\* what the code does keep: a send call never ends with another's response
C20_NeverAnothersResponse ==
    \A i \in Senders :
        send_pc[i] \in {"returned", "raised"} =>
            \/ outcome[i].kind = "terminated"
            \/ outcome[i].id = request_id[i] /\ request_id[i] = i

\* a send call waits on a running server that has answered it, its response gone
C20_Starved ==
    \E i \in Senders :
        /\ send_pc[i] = "reading"
        /\ alive
        /\ stdin = <<>>
        /\ stdout = <<>>
        /\ \A j \in Senders : line[j] = <<>>
        /\ \E d \in discarded : d.line.json /\ d.line.id = request_id[i] /\ d.by # i
====
